---- MODULE Spec2Model ----
(***************************************************************************)
(* Verification model of ml4convection (NOAA-GSL): the training-data       *)
(* generators, day selection, one-day readers, training drivers and        *)
(* metadata files of machine_learning/neural_net.py.                       *)
(*                                                                         *)
(* Dates are "yyyymmdd" strings in the source; here they are the integers  *)
(* with the same digits (20200229), so that lexical order is numeric order *)
(* and date arithmetic must really be computed.  Times are Unix seconds.   *)
(***************************************************************************)
EXTENDS Integers, Sequences, FiniteSets, TLC

VARIABLES
    pathway,                  \* "raw" | "preprocessed": which twin function runs
    option_dict,              \* the generator's option dictionary
    satellite_disk,           \* dates with a predictor-side file on disk
    radar_disk,               \* dates with a target-side file on disk
    lead_time_seconds,        \* option_dict[LEAD_TIME_KEY]
    num_examples_per_batch,   \* option_dict[BATCH_SIZE_KEY]
    max_examples_per_day_in_batch, \* option_dict[MAX_DAILY_EXAMPLES_KEY]
    num_aligned,              \* date -> aligned examples in that day's files
    satellite_file_names,     \* list found by find_many_files (predictor side)
    radar_file_names,         \* list found by find_many_files (target side)
    valid_date_strings,       \* the generator's (shuffled) date list
    date_index,               \* the generator's cursor
    num_examples_in_memory,   \* examples accumulated for the current batch
    batch_dates,              \* valid date of every example accumulated
    gen_pc,                   \* position of the generator / function
    gen_error,                \* "none" or the kind of error raised
    shuffled_list,            \* history: the list as random.shuffle left it
    num_shuffles,             \* history: calls of random.shuffle
    num_days_read,            \* history: calls of the one-day reader
    last_date_read,           \* history: date passed to the last such call
    num_batches,              \* history: batches yielded
    radar_valid_times,        \* valid times in the target-side file of the day
    satellite_times_prev_day, \* valid times in the previous day's predictor file
    satellite_times_this_day, \* valid times in the day's own predictor file
    num_examples_to_read,     \* argument of the one-day readers
    data_dict,                \* what the one-day reader returned
    read_pc,                  \* position of the one-day reader
    train_pc,                 \* position of train_model_from_*_files
    train_error,              \* "none" or the kind of error it raised
    train_args,               \* its scalar arguments
    training_option_dict_arg, \* the caller's training dictionary (the object)
    validation_option_dict_arg, \* the caller's validation dictionary (the object)
    validation_option_dict_given, \* history: that dictionary as the caller passed it
    training_option_dict,     \* the local name training_option_dict
    validation_option_dict,   \* the local name validation_option_dict
    output_dir_existed,       \* history: output_dir_name existed before the call
    output_dir_exists,        \* output_dir_name exists
    metafile_state,           \* "absent" | "open" | "complete"
    metafile_contents,        \* the dictionary stored in the metadata file
    history_file_exists,      \* <output_dir>/history.csv exists
    model_file_exists,        \* <output_dir>/model.h5 exists
    num_generators,           \* generator objects created
    num_data_files_read,      \* data-file reads made for the generators
    num_training_steps,       \* training steps run by fit_generator
    num_epochs_done,          \* epochs fit_generator has finished
    meta_pc,                  \* position of read_metafile
    meta_error,               \* "none" or the kind of error read_metafile raised
    missing_keys,             \* the keys listed in that error
    metadata_dict             \* what read_metafile returned

genVars == <<pathway, option_dict, satellite_disk, radar_disk, lead_time_seconds,
             num_examples_per_batch, max_examples_per_day_in_batch,
             num_aligned, satellite_file_names, radar_file_names,
             valid_date_strings, date_index, num_examples_in_memory,
             batch_dates, gen_pc, gen_error, shuffled_list, num_shuffles,
             num_days_read, last_date_read, num_batches>>

readVars == <<radar_valid_times, satellite_times_prev_day,
              satellite_times_this_day, num_examples_to_read, data_dict, read_pc>>

trainVars == <<train_pc, train_error, train_args, training_option_dict_arg,
               validation_option_dict_arg, validation_option_dict_given,
               training_option_dict, validation_option_dict, output_dir_existed,
               output_dir_exists, metafile_state, metafile_contents,
               history_file_exists, model_file_exists, num_generators,
               num_data_files_read, num_training_steps, num_epochs_done>>

metaVars == <<meta_pc, meta_error, missing_keys, metadata_dict>>

(* State of the other functions of the repository, one group per function. *)

VARIABLES
    load_pc,                          \* position of read_model
    load_error,                       \* "none" or the kind of error read_model raised
    hdf5_file_exists,                 \* the model file exists
    first_load_outcome,               \* what load_model does with the metric table only
    second_load_outcome,              \* what load_model does on the retry
    num_load_attempts,                \* calls of load_model
    num_metafile_accesses,            \* times the metadata file was looked for or read
    custom_object_dict,               \* keys of custom_objects in the last load_model call
    loaded_class_weights,             \* read_model's local class_weights
    apply_pc,                         \* position of apply_model
    apply_error,                      \* "none" or the kind of error apply_model raised
    model_object,                     \* the trained model: predictor of an example -> its forecast
    predictor_matrix,                 \* one entry per example
    batch_size_arg,                   \* the argument num_examples_per_batch
    inference_batch_size,             \* num_examples_per_batch after _check_inference_args
    first_index,                      \* the loop variable i of apply_model
    forecast_prob_matrix,             \* one entry per example; <<>> stands for None
    num_predict_calls,                \* calls of model_object.predict
    predict_ranges,                   \* the index ranges, from 0, model prediction was invoked on, in order
    echo_pc,                          \* position of find_convective_pixels
    echo_error,                       \* "none" or the kind of error it raised
    grid_shape,                       \* shape of reflectivity_matrix_dbz: <<rows, columns, heights>>
    reflectivity_matrix_dbz,          \* the caller's array: <<row, column, height index>> -> dBZ, NaN written -1
    reflectivity_given,               \* history: that array as the caller passed it
    grid_metadata_dict,               \* the caller's grid-metadata dictionary
    grid_metadata_given,              \* history: that dictionary as the caller passed it
    echo_option_dict_arg,             \* the caller's option dictionary
    echo_option_dict_given,           \* history: that dictionary as the caller passed it
    echo_option_dict,                 \* the local name option_dict
    DEFAULT_OPTION_DICT,              \* the module-level dictionary of echo_classification.py
    convective_flag_matrix,           \* the set of pixels flagged convective
    flags_after,                      \* history: the flagged set after each criterion applied so far
    find_pc,                          \* position of twb_radar_io.find_file
    find_args,                        \* its Boolean arguments
    radar_files_on_disk,              \* the radar files that exist for the valid time
    find_result,                      \* what find_file returned or raised
    twb_procs,                        \* the processes that call twb_radar_io.read_file
    twb_pc,                           \* process -> its position in read_file
    twb_error,                        \* process -> "none" or the error its last call raised
    exe_exists,                       \* the decoder binary FORTRAN_EXE_NAME exists
    num_read_calls,                   \* process -> calls of read_file it has made
    call_found_absent,                \* process -> its current call found the binary absent
    call_compiled,                    \* process -> its current call invoked the compiler
    call_compile_failed,              \* process -> the compilation of its current call exited non-zero
    call_ran_decoder,                 \* process -> its current call ran the decoder
    num_successful_compiles,          \* history: compilations that exited with 0
    num_compiles_after_success,       \* history: compiler invocations made after one had succeeded
    exe_removed_since_success,        \* history: the binary was removed after the last successful compilation
    num_removals,                     \* history: times the binary was removed
    temporary_files,                  \* the temporary text files on disk, each named by the process and the call that made it
    discard_pc,                       \* position in run_discard_test._run: "idle", "gather", "read" or "raised"
    discard_error,                    \* "none" or the error that _run raised
    prediction_files_on_disk,         \* the prediction files that exist, as <<radar number, date>>
    radar_index,                      \* the loop variable j
    date_strings,                     \* the list date_strings
    prediction_file_names,            \* the list prediction_file_names
    figure_pc,                        \* position in make_eval_figure_comparison._run
    figure_error,                     \* "none" or the error that _run raised
    gridded_eval_dir_names,           \* argument: one directory per model
    ungridded_eval_dir_names,         \* argument: one directory per model
    num_model_descriptions,           \* length of the argument model_description_strings
    model_index,                      \* the loop variable i, from 1
    score_index,                      \* the loop variable j, from 1
    panel_file_names,                 \* the list panel_file_names
    panels_read,                      \* the input files that trim_whitespace has read
    down_pc,                          \* position of the caller of example_io.downsample_data_in_space
    down_satellite_dict,              \* argument satellite_dict
    down_radar_dict,                  \* argument radar_dict
    downsampling_factor,              \* argument downsampling_factor
    change_coordinates,               \* argument change_coordinates
    new_satellite_dict,               \* the satellite dictionary returned
    new_radar_dict,                   \* the radar dictionary returned
    fss_pc,                           \* position of the caller of the function fractions_skill_score returned
    fss_module,                       \* the custom_losses module used: "machine_learning" or "top"
    half_window_size_px,              \* argument half_window_size_px
    use_as_loss_function,             \* argument use_as_loss_function
    target_tensor,                    \* argument target_tensor of loss: <<row, column>> -> value
    prediction_tensor,                \* argument prediction_tensor of loss
    loss_value,                       \* what loss returned: a fraction, NaN, or an error
    plot_pc,                          \* position of _run of plot_radar
    plot_error,                       \* "none" or the kind of error _run raised
    mask_file_name,                   \* argument mask_file_name, '' when no mask is given
    spatial_downsampling_factor_arg,  \* argument spatial_downsampling_factor as given
    spatial_downsampling_factor,      \* the local spatial_downsampling_factor: None or an integer
    expand_to_satellite_grid,         \* argument expand_to_satellite_grid
    daily_times_seconds,              \* argument daily_times_seconds
    mask_dict,                        \* None or the mask read, with its grid and its resolution
    input_file_names,                 \* the reflectivity files found, one per day
    num_days_plotted,                 \* days handed to _plot_radar_one_day
    reflectivity_factors_plotted      \* the downsampling factor of the reflectivity grid of each day plotted

loadVars == <<load_pc, load_error, hdf5_file_exists, first_load_outcome, second_load_outcome, num_load_attempts, num_metafile_accesses, custom_object_dict, loaded_class_weights>>

applyVars == <<apply_pc, apply_error, model_object, predictor_matrix, batch_size_arg, inference_batch_size, first_index, forecast_prob_matrix, num_predict_calls, predict_ranges>>

echoVars == <<echo_pc, echo_error, grid_shape, reflectivity_matrix_dbz, reflectivity_given, grid_metadata_dict, grid_metadata_given, echo_option_dict_arg, echo_option_dict_given, echo_option_dict, DEFAULT_OPTION_DICT, convective_flag_matrix, flags_after>>

findVars == <<find_pc, find_args, radar_files_on_disk, find_result>>

twbVars == <<twb_procs, twb_pc, twb_error, exe_exists, num_read_calls, call_found_absent, call_compiled, call_compile_failed, call_ran_decoder, num_successful_compiles, num_compiles_after_success, exe_removed_since_success, num_removals, temporary_files>>

discardVars == <<discard_pc, discard_error, prediction_files_on_disk, radar_index, date_strings, prediction_file_names>>

figureVars == <<figure_pc, figure_error, gridded_eval_dir_names, ungridded_eval_dir_names, num_model_descriptions, model_index, score_index, panel_file_names, panels_read>>

downVars == <<down_pc, down_satellite_dict, down_radar_dict, downsampling_factor, change_coordinates, new_satellite_dict, new_radar_dict>>

fssVars == <<fss_pc, fss_module, half_window_size_px, use_as_loss_function, target_tensor, prediction_tensor, loss_value>>

plotVars == <<plot_pc, plot_error, mask_file_name, spatial_downsampling_factor_arg, spatial_downsampling_factor, expand_to_satellite_grid, daily_times_seconds, mask_dict, input_file_names, num_days_plotted, reflectivity_factors_plotted>>

LoadIdle ==
    /\ load_pc = "idle"
    /\ load_error = "none"
    /\ hdf5_file_exists = FALSE
    /\ first_load_outcome = "ok"
    /\ second_load_outcome = "ok"
    /\ num_load_attempts = 0
    /\ num_metafile_accesses = 0
    /\ custom_object_dict = {}
    /\ loaded_class_weights = "unset"

ApplyIdle ==
    /\ apply_pc = "idle"
    /\ apply_error = "none"
    /\ model_object = <<>>
    /\ predictor_matrix = <<>>
    /\ batch_size_arg = <<>>
    /\ inference_batch_size = 0
    /\ first_index = 0
    /\ forecast_prob_matrix = <<>>
    /\ num_predict_calls = 0
    /\ predict_ranges = <<>>

EchoIdle ==
    /\ echo_pc = "idle"
    /\ echo_error = "none"
    /\ grid_shape = <<>>
    /\ reflectivity_matrix_dbz = <<>>
    /\ reflectivity_given = <<>>
    /\ grid_metadata_dict = <<>>
    /\ grid_metadata_given = <<>>
    /\ echo_option_dict_arg = <<>>
    /\ echo_option_dict_given = <<>>
    /\ echo_option_dict = <<>>
    /\ DEFAULT_OPTION_DICT = <<>>
    /\ convective_flag_matrix = {}
    /\ flags_after = <<>>

FindIdle ==
    /\ find_pc = "idle"
    /\ find_args = <<>>
    /\ radar_files_on_disk = {}
    /\ find_result = <<>>

TwbIdle ==
    /\ twb_procs = {}
    /\ twb_pc = <<>>
    /\ twb_error = <<>>
    /\ exe_exists = FALSE
    /\ num_read_calls = <<>>
    /\ call_found_absent = <<>>
    /\ call_compiled = <<>>
    /\ call_compile_failed = <<>>
    /\ call_ran_decoder = <<>>
    /\ num_successful_compiles = 0
    /\ num_compiles_after_success = 0
    /\ exe_removed_since_success = FALSE
    /\ num_removals = 0
    /\ temporary_files = {}

DiscardIdle ==
    /\ discard_pc = "idle"
    /\ discard_error = "none"
    /\ prediction_files_on_disk = {}
    /\ radar_index = 0
    /\ date_strings = <<>>
    /\ prediction_file_names = <<>>

FigureIdle ==
    /\ figure_pc = "idle"
    /\ figure_error = "none"
    /\ gridded_eval_dir_names = <<>>
    /\ ungridded_eval_dir_names = <<>>
    /\ num_model_descriptions = 0
    /\ model_index = 0
    /\ score_index = 0
    /\ panel_file_names = <<>>
    /\ panels_read = <<>>

DownIdle ==
    /\ down_pc = "idle"
    /\ down_satellite_dict = <<>>
    /\ down_radar_dict = <<>>
    /\ downsampling_factor = 0
    /\ change_coordinates = FALSE
    /\ new_satellite_dict = <<>>
    /\ new_radar_dict = <<>>

FssIdle ==
    /\ fss_pc = "idle"
    /\ fss_module = "none"
    /\ half_window_size_px = 0
    /\ use_as_loss_function = FALSE
    /\ target_tensor = <<>>
    /\ prediction_tensor = <<>>
    /\ loss_value = <<>>

PlotIdle ==
    /\ plot_pc = "idle"
    /\ plot_error = "none"
    /\ mask_file_name = ""
    /\ spatial_downsampling_factor_arg = 0
    /\ spatial_downsampling_factor = <<>>
    /\ expand_to_satellite_grid = FALSE
    /\ daily_times_seconds = {}
    /\ mask_dict = <<>>
    /\ input_file_names = <<>>
    /\ num_days_plotted = 0
    /\ reflectivity_factors_plotted = <<>>

laterVars == <<loadVars, applyVars, echoVars, findVars, twbVars, discardVars, figureVars, downVars, fssVars, plotVars>>

LaterIdle ==
    /\ LoadIdle
    /\ ApplyIdle
    /\ EchoIdle
    /\ FindIdle
    /\ TwbIdle
    /\ DiscardIdle
    /\ FigureIdle
    /\ DownIdle
    /\ FssIdle
    /\ PlotIdle

LoadOthersIdle ==
    /\ ApplyIdle
    /\ EchoIdle
    /\ FindIdle
    /\ TwbIdle
    /\ DiscardIdle
    /\ FigureIdle
    /\ DownIdle
    /\ FssIdle
    /\ PlotIdle

LoadLaterFrame == UNCHANGED <<applyVars, echoVars, findVars, twbVars, discardVars, figureVars, downVars, fssVars, plotVars>>

LoadFrame == UNCHANGED <<genVars, readVars, trainVars, metaVars, applyVars, echoVars, findVars, twbVars, discardVars, figureVars, downVars, fssVars, plotVars>>

ApplyOthersIdle ==
    /\ LoadIdle
    /\ EchoIdle
    /\ FindIdle
    /\ TwbIdle
    /\ DiscardIdle
    /\ FigureIdle
    /\ DownIdle
    /\ FssIdle
    /\ PlotIdle

ApplyLaterFrame == UNCHANGED <<loadVars, echoVars, findVars, twbVars, discardVars, figureVars, downVars, fssVars, plotVars>>

ApplyFrame == UNCHANGED <<genVars, readVars, trainVars, metaVars, loadVars, echoVars, findVars, twbVars, discardVars, figureVars, downVars, fssVars, plotVars>>

EchoOthersIdle ==
    /\ LoadIdle
    /\ ApplyIdle
    /\ FindIdle
    /\ TwbIdle
    /\ DiscardIdle
    /\ FigureIdle
    /\ DownIdle
    /\ FssIdle
    /\ PlotIdle

EchoLaterFrame == UNCHANGED <<loadVars, applyVars, findVars, twbVars, discardVars, figureVars, downVars, fssVars, plotVars>>

EchoFrame == UNCHANGED <<genVars, readVars, trainVars, metaVars, loadVars, applyVars, findVars, twbVars, discardVars, figureVars, downVars, fssVars, plotVars>>

FindOthersIdle ==
    /\ LoadIdle
    /\ ApplyIdle
    /\ EchoIdle
    /\ TwbIdle
    /\ DiscardIdle
    /\ FigureIdle
    /\ DownIdle
    /\ FssIdle
    /\ PlotIdle

FindLaterFrame == UNCHANGED <<loadVars, applyVars, echoVars, twbVars, discardVars, figureVars, downVars, fssVars, plotVars>>

FindFrame == UNCHANGED <<genVars, readVars, trainVars, metaVars, loadVars, applyVars, echoVars, twbVars, discardVars, figureVars, downVars, fssVars, plotVars>>

TwbOthersIdle ==
    /\ LoadIdle
    /\ ApplyIdle
    /\ EchoIdle
    /\ FindIdle
    /\ DiscardIdle
    /\ FigureIdle
    /\ DownIdle
    /\ FssIdle
    /\ PlotIdle

TwbLaterFrame == UNCHANGED <<loadVars, applyVars, echoVars, findVars, discardVars, figureVars, downVars, fssVars, plotVars>>

TwbFrame == UNCHANGED <<genVars, readVars, trainVars, metaVars, loadVars, applyVars, echoVars, findVars, discardVars, figureVars, downVars, fssVars, plotVars>>

DiscardOthersIdle ==
    /\ LoadIdle
    /\ ApplyIdle
    /\ EchoIdle
    /\ FindIdle
    /\ TwbIdle
    /\ FigureIdle
    /\ DownIdle
    /\ FssIdle
    /\ PlotIdle

DiscardLaterFrame == UNCHANGED <<loadVars, applyVars, echoVars, findVars, twbVars, figureVars, downVars, fssVars, plotVars>>

DiscardFrame == UNCHANGED <<genVars, readVars, trainVars, metaVars, loadVars, applyVars, echoVars, findVars, twbVars, figureVars, downVars, fssVars, plotVars>>

FigureOthersIdle ==
    /\ LoadIdle
    /\ ApplyIdle
    /\ EchoIdle
    /\ FindIdle
    /\ TwbIdle
    /\ DiscardIdle
    /\ DownIdle
    /\ FssIdle
    /\ PlotIdle

FigureLaterFrame == UNCHANGED <<loadVars, applyVars, echoVars, findVars, twbVars, discardVars, downVars, fssVars, plotVars>>

FigureFrame == UNCHANGED <<genVars, readVars, trainVars, metaVars, loadVars, applyVars, echoVars, findVars, twbVars, discardVars, downVars, fssVars, plotVars>>

DownOthersIdle ==
    /\ LoadIdle
    /\ ApplyIdle
    /\ EchoIdle
    /\ FindIdle
    /\ TwbIdle
    /\ DiscardIdle
    /\ FigureIdle
    /\ FssIdle
    /\ PlotIdle

DownLaterFrame == UNCHANGED <<loadVars, applyVars, echoVars, findVars, twbVars, discardVars, figureVars, fssVars, plotVars>>

DownFrame == UNCHANGED <<genVars, readVars, trainVars, metaVars, loadVars, applyVars, echoVars, findVars, twbVars, discardVars, figureVars, fssVars, plotVars>>

FssOthersIdle ==
    /\ LoadIdle
    /\ ApplyIdle
    /\ EchoIdle
    /\ FindIdle
    /\ TwbIdle
    /\ DiscardIdle
    /\ FigureIdle
    /\ DownIdle
    /\ PlotIdle

FssLaterFrame == UNCHANGED <<loadVars, applyVars, echoVars, findVars, twbVars, discardVars, figureVars, downVars, plotVars>>

FssFrame == UNCHANGED <<genVars, readVars, trainVars, metaVars, loadVars, applyVars, echoVars, findVars, twbVars, discardVars, figureVars, downVars, plotVars>>

PlotOthersIdle ==
    /\ LoadIdle
    /\ ApplyIdle
    /\ EchoIdle
    /\ FindIdle
    /\ TwbIdle
    /\ DiscardIdle
    /\ FigureIdle
    /\ DownIdle
    /\ FssIdle

PlotLaterFrame == UNCHANGED <<loadVars, applyVars, echoVars, findVars, twbVars, discardVars, figureVars, downVars, fssVars>>

PlotFrame == UNCHANGED <<genVars, readVars, trainVars, metaVars, loadVars, applyVars, echoVars, findVars, twbVars, discardVars, figureVars, downVars, fssVars>>

(* All the variables *)
vars == <<genVars, readVars, trainVars, metaVars, laterVars>>

----------------------------------------------------------------------------
(* Constants of neural_net.py *)

DAYS_TO_SECONDS == 86400

SATELLITE_DIRECTORY_KEY == "top_satellite_dir_name"
RADAR_DIRECTORY_KEY == "top_radar_dir_name"
SPATIAL_DS_FACTOR_KEY == "spatial_downsampling_factor"
BATCH_SIZE_KEY == "num_examples_per_batch"
MAX_DAILY_EXAMPLES_KEY == "max_examples_per_day_in_batch"
BAND_NUMBERS_KEY == "band_numbers"
LEAD_TIME_KEY == "lead_time_seconds"
REFL_THRESHOLD_KEY == "reflectivity_threshold_dbz"
FIRST_VALID_DATE_KEY == "first_valid_date_string"
LAST_VALID_DATE_KEY == "last_valid_date_string"
NORMALIZATION_FILE_KEY == "normalization_file_name"
UNIFORMIZE_FLAG_KEY == "uniformize"
PREDICTOR_DIRECTORY_KEY == "top_predictor_dir_name"
TARGET_DIRECTORY_KEY == "top_target_dir_name"
NORMALIZE_FLAG_KEY == "normalize"

NUM_EPOCHS_KEY == "num_epochs"
NUM_TRAINING_BATCHES_KEY == "num_training_batches_per_epoch"
TRAINING_OPTIONS_KEY == "training_option_dict"
NUM_VALIDATION_BATCHES_KEY == "num_validation_batches_per_epoch"
VALIDATION_OPTIONS_KEY == "validation_option_dict"
EARLY_STOPPING_KEY == "do_early_stopping"
PLATEAU_LR_MUTIPLIER_KEY == "plateau_lr_multiplier"
CLASS_WEIGHTS_KEY == "class_weights"

METADATA_KEYS ==
    <<NUM_EPOCHS_KEY, NUM_TRAINING_BATCHES_KEY, TRAINING_OPTIONS_KEY,
      NUM_VALIDATION_BATCHES_KEY, VALIDATION_OPTIONS_KEY,
      EARLY_STOPPING_KEY, PLATEAU_LR_MUTIPLIER_KEY, CLASS_WEIGHTS_KEY>>

DEFAULT_SPATIAL_DS_FACTOR == 1
DEFAULT_BATCH_SIZE == 256
DEFAULT_MAX_DAILY_EXAMPLES == 64
DEFAULT_REFL_THRESHOLD == 35
SATELLITE_BAND_NUMBERS == <<8, 9, 10, 11, 13, 14, 16>>

DEFAULT_GENERATOR_OPTION_DICT ==
    (SPATIAL_DS_FACTOR_KEY :> DEFAULT_SPATIAL_DS_FACTOR) @@
    (BATCH_SIZE_KEY :> DEFAULT_BATCH_SIZE) @@
    (MAX_DAILY_EXAMPLES_KEY :> DEFAULT_MAX_DAILY_EXAMPLES) @@
    (BAND_NUMBERS_KEY :> SATELLITE_BAND_NUMBERS) @@
    (REFL_THRESHOLD_KEY :> DEFAULT_REFL_THRESHOLD) @@
    (NORMALIZE_FLAG_KEY :> TRUE) @@
    (UNIFORMIZE_FLAG_KEY :> TRUE)

(* Smallest values _check_generator_args accepts *)
MinBatchSize == 2
MinDailyExamples == 2
MinDownsamplingFactor == 1

(* Bounds of the model *)

MaxBatchSize == 3

MaxDailyExamples == 3

MaxAligned == 2

MaxBatches == 2

MaxDaysRead == 6

NumTimeSlots == 3

MaxExamplesToRead == 3

(* Consecutive calendar days around the end of February 2020 (a leap year). *)
(* Files can exist on the days of DateWindow; Calendar[1] precedes them.    *)
Calendar == <<20200227, 20200228, 20200229, 20200301, 20200302>>

DateWindow == {Calendar[i] : i \in 2..Len(Calendar)}

LeadTimes == {0, 3600}

Pathways == {"raw", "preprocessed"}

----------------------------------------------------------------------------
(* General helpers *)

Range(s) == {s[i] : i \in DOMAIN s}

InList(x, s) == \E i \in DOMAIN s : s[i] = x

Min2(a, b) == IF a <= b THEN a ELSE b

RECURSIVE SortedSeq(_)
SortedSeq(S) ==
    IF S = {} THEN <<>>
    ELSE LET m == CHOOSE x \in S : \A y \in S : x <= y
         IN  <<m>> \o SortedSeq(S \ {m})

RECURSIVE CountIn(_, _)
CountIn(x, s) ==
    IF s = <<>> THEN 0
    ELSE (IF Head(s) = x THEN 1 ELSE 0) + CountIn(x, Tail(s))

Shuffles(s) ==
    {p \in [DOMAIN s -> Range(s)] : \A x \in Range(s) : CountIn(x, p) = CountIn(x, s)}

----------------------------------------------------------------------------
(* Calendar arithmetic: time_conversion.string_to_unix_sec /                *)
(* unix_sec_to_string with format "%Y%m%d", and general_utils.              *)
(* get_previous_date, which subtracts 86400 s from the parsed time.         *)

DaysFromCivil(y, m, d) ==
    LET yy  == IF m <= 2 THEN y - 1 ELSE y
        era == yy \div 400
        yoe == yy - era * 400
        mp  == IF m > 2 THEN m - 3 ELSE m + 9
        doy == (153 * mp + 2) \div 5 + d - 1
        doe == yoe * 365 + yoe \div 4 - yoe \div 100 + doy
    IN  era * 146097 + doe - 719468

CivilFromDays(z) ==
    LET zz  == z + 719468
        era == zz \div 146097
        doe == zz - era * 146097
        yoe == (doe - doe \div 1460 + doe \div 36524 - doe \div 146096) \div 365
        doy == doe - (365 * yoe + yoe \div 4 - yoe \div 100)
        mp  == (5 * doy + 2) \div 153
        d   == doy - (153 * mp + 2) \div 5 + 1
        m   == IF mp < 10 THEN mp + 3 ELSE mp - 9
        y   == yoe + era * 400 + (IF m <= 2 THEN 1 ELSE 0)
    IN  <<y, m, d>>

string_to_unix_sec(date_string) ==
    DaysFromCivil(date_string \div 10000, (date_string \div 100) % 100,
                  date_string % 100) * DAYS_TO_SECONDS

unix_sec_to_string(unix_sec) ==
    LET c == CivilFromDays(unix_sec \div DAYS_TO_SECONDS)
    IN  c[1] * 10000 + c[2] * 100 + c[3]

get_previous_date(date_string) ==
    unix_sec_to_string(string_to_unix_sec(date_string) - DAYS_TO_SECONDS)

----------------------------------------------------------------------------
(* File names.  A file name is modelled by the two things its path encodes: *)
(* the side it belongs to and its date token.                               *)

FileName(side, date_string) == [side |-> side, date |-> date_string]

file_name_to_date(file_name) == file_name.date

(* find_many_files / find_many_predictor_files / find_many_target_files     *)
(* with raise_error_if_any_missing=False: the existing files of the dates   *)
(* first..last, in date order.                                              *)
find_many_files(side, disk, first_date_string, last_date_string) ==
    LET dates == SortedSeq({d \in disk : first_date_string <= d /\ d <= last_date_string})
    IN  [i \in DOMAIN dates |-> FileName(side, dates[i])]

----------------------------------------------------------------------------
(* Day selection *)

find_days_lead_ignored(satellite_file_names_, radar_file_names_, lead_time_seconds_) ==
    LET satellite_date_strings ==
            [i \in DOMAIN satellite_file_names_ |-> file_name_to_date(satellite_file_names_[i])]
        radar_date_strings ==
            [i \in DOMAIN radar_file_names_ |-> file_name_to_date(radar_file_names_[i])]
        Keep(this_radar_date_string) == InList(this_radar_date_string, satellite_date_strings)
    IN  SelectSeq(radar_date_strings, Keep)

find_days_with_raw_inputs(satellite_file_names_, radar_file_names_, lead_time_seconds_) ==
    LET satellite_date_strings ==
            [i \in DOMAIN satellite_file_names_ |-> file_name_to_date(satellite_file_names_[i])]
        radar_date_strings ==
            [i \in DOMAIN radar_file_names_ |-> file_name_to_date(radar_file_names_[i])]
        Keep(this_radar_date_string) ==
            /\ InList(this_radar_date_string, satellite_date_strings)
            /\ (lead_time_seconds_ > 0 =>
                    InList(get_previous_date(this_radar_date_string), satellite_date_strings))
    IN  SelectSeq(radar_date_strings, Keep)

find_days_with_preprocessed_inputs(predictor_file_names_, target_file_names_, lead_time_seconds_) ==
    LET predictor_date_strings ==
            [i \in DOMAIN predictor_file_names_ |-> file_name_to_date(predictor_file_names_[i])]
        target_date_strings ==
            [i \in DOMAIN target_file_names_ |-> file_name_to_date(target_file_names_[i])]
        Keep(this_target_date_string) ==
            /\ InList(this_target_date_string, predictor_date_strings)
            /\ (lead_time_seconds_ > 0 =>
                    InList(get_previous_date(this_target_date_string), predictor_date_strings))
    IN  SelectSeq(target_date_strings, Keep)

find_days(pathway_, predictor_side_files, target_side_files, lead_time_seconds_) ==
    IF pathway_ = "raw"
    THEN find_days_with_raw_inputs(predictor_side_files, target_side_files, lead_time_seconds_)
    ELSE find_days_with_preprocessed_inputs(predictor_side_files, target_side_files, lead_time_seconds_)

PredictorSide(pathway_) == IF pathway_ = "raw" THEN "satellite" ELSE "predictor"

TargetSide(pathway_) == IF pathway_ = "raw" THEN "radar" ELSE "target"

----------------------------------------------------------------------------
(* Option dictionaries: functions from keys to values *)

DictUpdate(base, overrides) ==
    [k \in DOMAIN base \cup DOMAIN overrides |->
        IF k \in DOMAIN overrides THEN overrides[k] ELSE base[k]]

(* _check_generator_args: the defaults, overridden by the caller's entries. *)
defaulted_option_dict(option_dict_) ==
    DictUpdate(DEFAULT_GENERATOR_OPTION_DICT, option_dict_)

(* _check_generator_args: the error it raises on the defaulted dictionary,  *)
(* "none" if it returns.  Model values are integers where the source wants  *)
(* integers, so only the range checks (and the missing lead time) can fail. *)
generator_args_error(option_dict_) ==
    LET d == defaulted_option_dict(option_dict_)
    IN  IF d[BATCH_SIZE_KEY] < MinBatchSize THEN "InvalidInput"
        ELSE IF d[SPATIAL_DS_FACTOR_KEY] < MinDownsamplingFactor THEN "InvalidInput"
        ELSE IF d[MAX_DAILY_EXAMPLES_KEY] < MinDailyExamples THEN "InvalidInput"
        ELSE IF LEAD_TIME_KEY \notin DOMAIN d THEN "KeyError"
        ELSE IF d[LEAD_TIME_KEY] < 0 THEN "InvalidInput"
        ELSE IF ~(d[LEAD_TIME_KEY] < DAYS_TO_SECONDS) THEN "InvalidInput"
        ELSE IF ~(d[REFL_THRESHOLD_KEY] > 0) THEN "InvalidInput"
        ELSE "none"

(* Keys the generator reads from the checked dictionary before its loop. *)
GeneratorKeys(pathway_) ==
    IF pathway_ = "raw"
    THEN {SATELLITE_DIRECTORY_KEY, RADAR_DIRECTORY_KEY, SPATIAL_DS_FACTOR_KEY,
          BATCH_SIZE_KEY, MAX_DAILY_EXAMPLES_KEY, BAND_NUMBERS_KEY, LEAD_TIME_KEY,
          REFL_THRESHOLD_KEY, FIRST_VALID_DATE_KEY, LAST_VALID_DATE_KEY,
          NORMALIZATION_FILE_KEY, UNIFORMIZE_FLAG_KEY}
    ELSE {PREDICTOR_DIRECTORY_KEY, TARGET_DIRECTORY_KEY, BATCH_SIZE_KEY,
          MAX_DAILY_EXAMPLES_KEY, BAND_NUMBERS_KEY, LEAD_TIME_KEY,
          FIRST_VALID_DATE_KEY, LAST_VALID_DATE_KEY, NORMALIZE_FLAG_KEY,
          UNIFORMIZE_FLAG_KEY}

----------------------------------------------------------------------------
(* The one-day readers, as the generator sees them: how many examples the   *)
(* returned data_dict holds, given the number of aligned examples of the    *)
(* day (num_examples = len(good_indices)) and num_examples_to_read.  Zero   *)
(* stands for the None returned when no time is aligned.                    *)

num_examples_uncapped(num_examples, num_examples_to_read_) == num_examples

num_examples_returned(num_examples, num_examples_to_read_) ==
    IF num_examples >= num_examples_to_read_
    THEN num_examples_to_read_
    ELSE num_examples

Repeat(x, n) == [i \in 1..n |-> x]

----------------------------------------------------------------------------
(* Values of the variables a specification does not use. *)

NoData == [kind |-> "unset", predictor_matrix |-> <<>>, target_matrix |-> <<>>,
           valid_times_unix_sec |-> <<>>]

ReadIdle ==
    /\ radar_valid_times = <<>>
    /\ satellite_times_prev_day = <<>>
    /\ satellite_times_this_day = <<>>
    /\ num_examples_to_read = 0
    /\ data_dict = NoData
    /\ read_pc = "idle"

MetaIdle ==
    /\ meta_pc = "idle"
    /\ meta_error = "none"
    /\ missing_keys = {}
    /\ metadata_dict = <<>>

(* No training function has been called. *)
TrainCallIdle ==
    /\ train_pc = "idle"
    /\ train_error = "none"
    /\ train_args = <<>>
    /\ training_option_dict_arg = <<>>
    /\ validation_option_dict_arg = <<>>
    /\ validation_option_dict_given = <<>>
    /\ training_option_dict = <<>>
    /\ validation_option_dict = <<>>
    /\ output_dir_existed = FALSE
    /\ output_dir_exists = FALSE
    /\ history_file_exists = FALSE
    /\ model_file_exists = FALSE
    /\ num_generators = 0
    /\ num_data_files_read = 0
    /\ num_training_steps = 0
    /\ num_epochs_done = 0

TrainIdle ==
    /\ TrainCallIdle
    /\ metafile_state = "absent"
    /\ metafile_contents = <<>>

GenFrame == UNCHANGED <<readVars, trainVars, metaVars, laterVars>>

----------------------------------------------------------------------------
(* The generators.  generator_from_raw_files and                            *)
(* generator_from_preprocessed_files are Python generator functions (their  *)
(* bodies contain `yield`): the call returns a suspended generator object   *)
(* and runs none of the body; the body runs, up to the next `yield`, each   *)
(* time a batch is requested.                                               *)

FirstValidDate == Calendar[3]

LastValidDate == Calendar[Len(Calendar)]

DayOutcomes == (0..MaxAligned) \cup {-1}

GenOptionDicts(pathway_) ==
    {   (IF pathway_ = "raw"
         THEN (SATELLITE_DIRECTORY_KEY :> "satellite_dir") @@
              (RADAR_DIRECTORY_KEY :> "radar_dir") @@
              (NORMALIZATION_FILE_KEY :> "None")
         ELSE (PREDICTOR_DIRECTORY_KEY :> "predictor_dir") @@
              (TARGET_DIRECTORY_KEY :> "target_dir")) @@
        (BATCH_SIZE_KEY :> b) @@ (MAX_DAILY_EXAMPLES_KEY :> m) @@
        (LEAD_TIME_KEY :> l) @@
        (FIRST_VALID_DATE_KEY :> FirstValidDate) @@
        (LAST_VALID_DATE_KEY :> LastValidDate)
        : b \in (MinBatchSize - 1)..MaxBatchSize,
          m \in MinDailyExamples..MaxDailyExamples,
          l \in LeadTimes }

GenIdle ==
    /\ num_examples_per_batch = 0
    /\ max_examples_per_day_in_batch = 0
    /\ satellite_file_names = <<>>
    /\ radar_file_names = <<>>
    /\ valid_date_strings = <<>>
    /\ date_index = 0
    /\ num_examples_in_memory = 0
    /\ batch_dates = <<>>
    /\ gen_error = "none"
    /\ shuffled_list = <<>>
    /\ num_shuffles = 0
    /\ num_days_read = 0
    /\ last_date_read = 0
    /\ num_batches = 0

(* No generator exists. *)
GenUnused ==
    /\ pathway = "raw"
    /\ option_dict = <<>>
    /\ satellite_disk = {}
    /\ radar_disk = {}
    /\ lead_time_seconds = 0
    /\ num_aligned = [d \in DateWindow |-> 0]
    /\ gen_pc = "idle"
    /\ GenIdle

(* Nothing of neural_net.py's generators, readers or training runs. *)
EarlierIdle ==
    /\ GenUnused
    /\ ReadIdle
    /\ TrainIdle
    /\ MetaIdle

EarlierFrame == UNCHANGED <<genVars, readVars, trainVars, metaVars>>

(* The files on disk and what each day's files hold: a day's reader finds   *)
(* num_aligned[d] aligned examples; -1 stands for a read that raises, which *)
(* only the preprocessed reader with a positive lead time can do (it looks  *)
(* the initialization times up among the target times).                     *)
GenInit ==
    /\ pathway \in Pathways
    /\ option_dict \in GenOptionDicts(pathway)
    /\ satellite_disk \in SUBSET DateWindow
    /\ radar_disk \in SUBSET DateWindow
    /\ num_aligned \in [DateWindow -> DayOutcomes]
    /\ \A d \in DateWindow :
          /\ (d \notin satellite_disk \cap radar_disk \/ d < FirstValidDate)
                => num_aligned[d] = 0
          /\ num_aligned[d] = -1
                => (pathway = "preprocessed" /\ option_dict[LEAD_TIME_KEY] > 0)
    /\ gen_pc = "new"
    /\ lead_time_seconds = 0
    /\ GenIdle
    /\ ReadIdle
    /\ TrainIdle
    /\ MetaIdle
    /\ LaterIdle

(* training_generator = generator_from_raw_files(option_dict) *)
GenConstruct ==
    /\ gen_pc = "new"
    /\ gen_pc' = "created"
    /\ UNCHANGED <<pathway, option_dict, satellite_disk, radar_disk,
                   lead_time_seconds, num_examples_per_batch,
                   max_examples_per_day_in_batch, num_aligned,
                   satellite_file_names, radar_file_names, valid_date_strings,
                   date_index, num_examples_in_memory, batch_dates, gen_error,
                   shuffled_list, num_shuffles, num_days_read, last_date_read,
                   num_batches>>
    /\ GenFrame

GenRaise(kind) ==
    /\ gen_pc' = "raised"
    /\ gen_error' = kind

(* The first request for a batch: the body from its first line to the       *)
(* inner loop.                                                              *)
GenStart ==
    /\ gen_pc = "created"
    /\ LET args_error == generator_args_error(option_dict)
           checked == defaulted_option_dict(option_dict)
           lead == checked[LEAD_TIME_KEY]
           first_valid_date_string == checked[FIRST_VALID_DATE_KEY]
           last_valid_date_string == checked[LAST_VALID_DATE_KEY]
           first_init_date_string ==
               IF lead = 0 THEN first_valid_date_string
               ELSE get_previous_date(first_valid_date_string)
           predictor_side_files ==
               find_many_files(PredictorSide(pathway), satellite_disk,
                               first_init_date_string, last_valid_date_string)
           target_side_files ==
               find_many_files(TargetSide(pathway), radar_disk,
                               IF pathway = "raw" THEN first_valid_date_string
                               ELSE first_init_date_string,
                               last_valid_date_string)
           found == find_days(pathway, predictor_side_files, target_side_files, lead)
           Fail(kind) ==
               /\ GenRaise(kind)
               /\ UNCHANGED <<option_dict, lead_time_seconds, num_examples_per_batch,
                              max_examples_per_day_in_batch, satellite_file_names,
                              radar_file_names, valid_date_strings, shuffled_list,
                              num_shuffles>>
       IN  IF args_error # "none" THEN Fail(args_error)
           ELSE IF ~(GeneratorKeys(pathway) \subseteq DOMAIN checked) THEN Fail("KeyError")
           ELSE IF Len(predictor_side_files) = 0 \/ Len(target_side_files) = 0
                THEN Fail("NotFound")
           ELSE IF Len(found) = 0 THEN
                /\ GenRaise("NotFound")
                /\ option_dict' = checked
                /\ lead_time_seconds' = lead
                /\ num_examples_per_batch' = checked[BATCH_SIZE_KEY]
                /\ max_examples_per_day_in_batch' = checked[MAX_DAILY_EXAMPLES_KEY]
                /\ satellite_file_names' = predictor_side_files
                /\ radar_file_names' = target_side_files
                /\ valid_date_strings' = found
                /\ UNCHANGED <<shuffled_list, num_shuffles>>
           ELSE /\ gen_pc' = "reading"
                /\ gen_error' = "none"
                /\ option_dict' = checked
                /\ lead_time_seconds' = lead
                /\ num_examples_per_batch' = checked[BATCH_SIZE_KEY]
                /\ max_examples_per_day_in_batch' = checked[MAX_DAILY_EXAMPLES_KEY]
                /\ satellite_file_names' = predictor_side_files
                /\ radar_file_names' = target_side_files
                /\ valid_date_strings' \in Shuffles(found)
                /\ shuffled_list' = valid_date_strings'
                /\ num_shuffles' = num_shuffles + 1
    /\ UNCHANGED <<pathway, satellite_disk, radar_disk, num_aligned, date_index,
                   num_examples_in_memory, batch_dates, num_days_read,
                   last_date_read, num_batches>>
    /\ GenFrame

(* The cursor stays on the last date instead of going back to the first. *)
wrapped_date_index_stuck(date_index_, num_dates) ==
    IF date_index_ = num_dates THEN num_dates - 1 ELSE date_index_

(* The cursor after the wrap-around test at the top of the inner loop. *)
wrapped_date_index(date_index_, num_dates) ==
    IF date_index_ = num_dates THEN 0 ELSE date_index_

(* One pass of the inner loop, `while num_examples_in_memory <              *)
(* num_examples_per_batch`, and, when the pass fills the batch, the yield.  *)
(* The passes are counted in num_days_read, up to MaxDaysRead, or are not   *)
(* counted at all.                                                          *)
GenReadDayPass(counted) ==
    /\ gen_pc = "reading"
    /\ num_examples_in_memory < num_examples_per_batch
    /\ counted => num_days_read < MaxDaysRead
    /\ LET index == wrapped_date_index(date_index, Len(valid_date_strings))
           this_num_to_read ==
               Min2(max_examples_per_day_in_batch,
                    num_examples_per_batch - num_examples_in_memory)
           valid_date_string == valid_date_strings[index + 1]
           outcome == num_aligned[valid_date_string]
           num_read == num_examples_returned(outcome, this_num_to_read)
           new_batch == batch_dates \o Repeat(valid_date_string, num_read)
       IN  /\ num_days_read' = IF counted THEN num_days_read + 1 ELSE num_days_read
           /\ last_date_read' = valid_date_string
           /\ IF outcome = -1 THEN
                 /\ GenRaise("IndexError")
                 /\ UNCHANGED <<date_index, batch_dates, num_examples_in_memory,
                                num_batches>>
              ELSE
                 /\ date_index' = index + 1
                 /\ batch_dates' = new_batch
                 /\ num_examples_in_memory' = Len(new_batch)
                 /\ IF Len(new_batch) < num_examples_per_batch
                    THEN /\ gen_pc' = "reading"
                         /\ UNCHANGED num_batches
                    ELSE /\ gen_pc' = "yielded"
                         /\ num_batches' = num_batches + 1
                 /\ UNCHANGED gen_error
    /\ UNCHANGED <<pathway, option_dict, satellite_disk, radar_disk,
                   lead_time_seconds, num_examples_per_batch,
                   max_examples_per_day_in_batch, num_aligned,
                   satellite_file_names, radar_file_names, valid_date_strings,
                   shuffled_list, num_shuffles>>
    /\ GenFrame

GenReadDay == GenReadDayPass(TRUE)

(* The same pass, as often as the loop makes it. *)
GenReadDayUnbounded == GenReadDayPass(FALSE)

GenResume_cursor_reset ==
    /\ gen_pc = "yielded"
    /\ num_batches < MaxBatches
    /\ gen_pc' = "reading"
    /\ num_examples_in_memory' = 0
    /\ batch_dates' = <<>>
    /\ date_index' = 0
    /\ UNCHANGED <<pathway, option_dict, satellite_disk, radar_disk,
                   lead_time_seconds, num_examples_per_batch,
                   max_examples_per_day_in_batch, num_aligned,
                   satellite_file_names, radar_file_names, valid_date_strings,
                   gen_error, shuffled_list, num_shuffles,
                   num_days_read, last_date_read, num_batches>>
    /\ GenFrame

(* A later request for a batch: the outer loop starts its next pass. *)
GenResume ==
    /\ gen_pc = "yielded"
    /\ num_batches < MaxBatches
    /\ gen_pc' = "reading"
    /\ num_examples_in_memory' = 0
    /\ batch_dates' = <<>>
    /\ UNCHANGED <<pathway, option_dict, satellite_disk, radar_disk,
                   lead_time_seconds, num_examples_per_batch,
                   max_examples_per_day_in_batch, num_aligned,
                   satellite_file_names, radar_file_names, valid_date_strings,
                   date_index, gen_error, shuffled_list, num_shuffles,
                   num_days_read, last_date_read, num_batches>>
    /\ GenFrame

GenNext == GenConstruct \/ GenStart \/ GenReadDay \/ GenResume

SpecGen == GenInit /\ [][GenNext]_vars

(* The generator with its inner loop unbounded.  A request that is being    *)
(* served is a running Python call: its loop makes its next pass.           *)
GenFairNext == GenConstruct \/ GenStart \/ GenReadDayUnbounded \/ GenResume

SpecGenFair == GenInit /\ [][GenFairNext]_vars /\ WF_vars(GenReadDayUnbounded)

----------------------------------------------------------------------------
(* Day selection on its own: the two functions applied to file lists of     *)
(* every combination of existing files.                                     *)

DaysInit ==
    /\ pathway \in Pathways
    /\ option_dict = <<>>
    /\ satellite_disk \in SUBSET DateWindow
    /\ radar_disk \in SUBSET DateWindow
    /\ num_aligned = [d \in DateWindow |-> 0]
    /\ gen_pc = "days_start"
    /\ lead_time_seconds \in LeadTimes
    /\ num_examples_per_batch = 0
    /\ max_examples_per_day_in_batch = 0
    /\ satellite_file_names =
           find_many_files(PredictorSide(pathway), satellite_disk,
                           Calendar[1], Calendar[Len(Calendar)])
    /\ radar_file_names =
           find_many_files(TargetSide(pathway), radar_disk,
                           Calendar[1], Calendar[Len(Calendar)])
    /\ valid_date_strings = <<>>
    /\ date_index = 0
    /\ num_examples_in_memory = 0
    /\ batch_dates = <<>>
    /\ gen_error = "none"
    /\ shuffled_list = <<>>
    /\ num_shuffles = 0
    /\ num_days_read = 0
    /\ last_date_read = 0
    /\ num_batches = 0
    /\ ReadIdle
    /\ TrainIdle
    /\ MetaIdle
    /\ LaterIdle

DaysUnchanged ==
    UNCHANGED <<pathway, option_dict, satellite_disk, radar_disk,
                lead_time_seconds, num_examples_per_batch,
                max_examples_per_day_in_batch, num_aligned,
                satellite_file_names, radar_file_names, date_index,
                num_examples_in_memory, batch_dates, gen_error, shuffled_list,
                num_shuffles, num_days_read, last_date_read, num_batches>>

FindDaysRaw ==
    /\ gen_pc = "days_start"
    /\ pathway = "raw"
    /\ valid_date_strings' =
           find_days_with_raw_inputs(satellite_file_names, radar_file_names,
                                     lead_time_seconds)
    /\ gen_pc' = "days_done"
    /\ DaysUnchanged
    /\ GenFrame

FindDaysPreprocessed ==
    /\ gen_pc = "days_start"
    /\ pathway = "preprocessed"
    /\ valid_date_strings' =
           find_days_with_preprocessed_inputs(satellite_file_names, radar_file_names,
                                              lead_time_seconds)
    /\ gen_pc' = "days_done"
    /\ DaysUnchanged
    /\ GenFrame

DaysNext == FindDaysRaw \/ FindDaysPreprocessed

SpecDays == DaysInit /\ [][DaysNext]_vars

----------------------------------------------------------------------------
(* Properties of the generators and of day selection *)

HasFile(file_names, date_string) ==
    \E i \in DOMAIN file_names : file_names[i].date = date_string

(* The day before a day of the window, read off the calendar. *)
PrevCalendarDay(date_string) ==
    Calendar[(CHOOSE i \in 2..Len(Calendar) : Calendar[i] = date_string) - 1]

(* C1: every batch a generator yields holds exactly num_examples_per_batch  *)
(* examples, never fewer and never more.                                    *)
C1_BatchSizeExact ==
    gen_pc = "yielded" =>
        /\ Len(batch_dates) = num_examples_per_batch
        /\ num_examples_in_memory = num_examples_per_batch
        /\ num_examples_per_batch >= MinBatchSize

(* A second batch, filled from two days, one of which had more aligned      *)
(* examples than the batch had room for.                                    *)
C1_Witness ==
    /\ gen_pc = "yielded"
    /\ num_batches = 2
    /\ Cardinality(Range(batch_dates)) >= 2
    /\ \E d \in Range(batch_dates) : num_aligned[d] > CountIn(d, batch_dates)

(* C2: in every batch yielded, no single valid date contributes more than   *)
(* max_examples_per_day_in_batch examples.                                  *)
C2_PerDayCap ==
    gen_pc = "yielded" =>
        \A d \in Range(batch_dates) :
            CountIn(d, batch_dates) <= max_examples_per_day_in_batch

(* C3: the date list is shuffled exactly once, before the first day is      *)
(* read, and never reordered afterwards; the k-th day read, counted over    *)
(* all batches and including days that give no examples, is element         *)
(* k mod n of the shuffled list.                                            *)
C3_FixedCyclicOrder ==
    /\ num_shuffles <= 1
    /\ gen_pc \in {"reading", "yielded"} =>
          (num_shuffles = 1 /\ valid_date_strings = shuffled_list)
    /\ num_days_read > 0 =>
          /\ num_shuffles = 1
          /\ valid_date_strings = shuffled_list
          /\ last_date_read =
                shuffled_list[((num_days_read - 1) % Len(shuffled_list)) + 1]

(* The second batch has been yielded, the list was really reordered by the  *)
(* shuffle, the cursor has wrapped around, and the last day read is not the *)
(* last of the list.                                                        *)
C3_Witness ==
    /\ gen_pc = "yielded"
    /\ num_batches = 2
    /\ Len(shuffled_list) >= 2
    /\ shuffled_list[1] > shuffled_list[2]
    /\ num_days_read > Len(shuffled_list)
    /\ num_days_read % Len(shuffled_list) # 0

(* C4: the day-selection functions return exactly the eligible dates: d is  *)
(* returned iff it has a target-side and a predictor-side file and, when    *)
(* the lead time is positive, the previous calendar day has a predictor-    *)
(* side file; each once.                                                    *)
C4_ExactlyEligibleDays ==
    gen_pc = "days_done" =>
        /\ \A d \in DateWindow :
              InList(d, valid_date_strings) <=>
                  /\ HasFile(radar_file_names, d)
                  /\ HasFile(satellite_file_names, d)
                  /\ (lead_time_seconds > 0 =>
                          HasFile(satellite_file_names, PrevCalendarDay(d)))
        /\ Range(valid_date_strings) \subseteq DateWindow
        /\ \A d \in Range(valid_date_strings) : CountIn(d, valid_date_strings) = 1

(* With a positive lead time, 1 March 2020 is returned (29 February has a   *)
(* predictor-side file) while another day with both files is left out.      *)
C4_Witness ==
    /\ gen_pc = "days_done"
    /\ lead_time_seconds > 0
    /\ InList(20200301, valid_date_strings)
    /\ \E d \in DateWindow :
          /\ HasFile(radar_file_names, d)
          /\ HasFile(satellite_file_names, d)
          /\ ~InList(d, valid_date_strings)

(* The dates of the configured range that are eligible, from the files on   *)
(* disk.                                                                    *)
EligibleOnDisk(lead) ==
    {d \in DateWindow :
        /\ FirstValidDate <= d /\ d <= LastValidDate
        /\ d \in radar_disk /\ d \in satellite_disk
        /\ (lead > 0 => PrevCalendarDay(d) \in satellite_disk)}

(* C6: a generator over a date range with no eligible date fails with       *)
(* NotFound when it is constructed, before any batch is requested.          *)
C6_NotFoundAtConstruction ==
    (/\ gen_pc \in {"created", "reading", "yielded", "raised"}
     /\ generator_args_error(option_dict) = "none"
     /\ EligibleOnDisk(option_dict[LEAD_TIME_KEY]) = {})
        => (gen_pc = "raised" /\ gen_error = "NotFound")

----------------------------------------------------------------------------
(* The one-day readers, _read_raw_inputs_one_day and                        *)
(* _read_preprocessed_inputs_one_day.  A loaded dictionary is modelled by   *)
(* its list of valid times (one entry per time step of data); an example of *)
(* predictor_matrix or target_matrix is modelled by the valid time of the   *)
(* data it holds.                                                           *)

ValidDate == Calendar[4]

(* Spacing of the valid times in a file: one hour *)
TimeStep == DAYS_TO_SECONDS \div 24

(* Valid times the files of the valid date, and of the day before, can hold *)
ThisDayTimes == {string_to_unix_sec(ValidDate) + k * TimeStep : k \in 0..(NumTimeSlots - 1)}

PrevDayTimes == {string_to_unix_sec(ValidDate) - k * TimeStep : k \in 1..2}

IndexOf(x, s) == CHOOSE i \in DOMAIN s : s[i] = x

(* subset_by_time of radar_io, satellite_io and example_io: the entries of  *)
(* the dictionary at the desired times, in the order desired; a desired     *)
(* time the dictionary does not hold is an error.                           *)
subset_by_time(dict_times, desired_times_unix_sec) ==
    IF \A i \in DOMAIN desired_times_unix_sec : InList(desired_times_unix_sec[i], dict_times)
    THEN [ok |-> TRUE,
          times |-> [i \in DOMAIN desired_times_unix_sec |->
                        dict_times[IndexOf(desired_times_unix_sec[i], dict_times)]]]
    ELSE [ok |-> FALSE, times |-> <<>>]

(* subset_by_index: the entries at desired_indices, in that order. *)
subset_by_index(dict_times, desired_indices) ==
    [j \in DOMAIN desired_indices |-> dict_times[desired_indices[j]]]

(* numpy.random.choice(desired_indices, size, replace=False): every ordered *)
(* choice of `size` distinct indices.                                       *)
random_choice(num_examples, size) ==
    {c \in [1..size -> 1..num_examples] : \A i, j \in 1..size : c[i] = c[j] => i = j}

(* Files read: the day's own predictor file, preceded by the previous       *)
(* day's when the lead time is positive; concat_data joins them.            *)
loaded_predictor_times(times_prev_day, times_this_day, lead_time_seconds_) ==
    IF lead_time_seconds_ > 0 THEN times_prev_day \o times_this_day ELSE times_this_day

(* good_indices: positions of the target times whose initialization time    *)
(* is among the predictor times.                                            *)
good_indices_of(valid_times_unix_sec, predictor_times, lead_time_seconds_) ==
    LET IsGood(i) == InList(valid_times_unix_sec[i] - lead_time_seconds_, predictor_times)
    IN  SelectSeq([i \in DOMAIN valid_times_unix_sec |-> i], IsGood)

DataDict(predictor_times, target_times, valid_times) ==
    [kind |-> "data", predictor_matrix |-> predictor_times,
     target_matrix |-> target_times, valid_times_unix_sec |-> valid_times]

NoneReturned == [kind |-> "None", predictor_matrix |-> <<>>, target_matrix |-> <<>>,
                 valid_times_unix_sec |-> <<>>]

ErrorRaised == [kind |-> "error", predictor_matrix |-> <<>>, target_matrix |-> <<>>,
                valid_times_unix_sec |-> <<>>]

(* Lines 266-281 and 420-432 on the two dictionaries, then the returned     *)
(* data_dict (lines 310-322, 454-466): one per outcome of the random choice *)
subsampled_data_dicts(predictor_times, target_times, num_examples, num_examples_to_read_, valid_times_unix_sec) ==
    IF num_examples >= num_examples_to_read_
    THEN {DataDict(subset_by_index(predictor_times, desired_indices),
                   subset_by_index(target_times, desired_indices),
                   valid_times_unix_sec)
            : desired_indices \in random_choice(num_examples, num_examples_to_read_)}
    ELSE {DataDict(predictor_times, target_times, valid_times_unix_sec)}

(* The set of things _read_raw_inputs_one_day can return *)
read_raw_inputs_one_day(radar_times, times_prev_day, times_this_day, lead_time_seconds_, num_examples_to_read_) ==
    LET satellite_times ==
            loaded_predictor_times(times_prev_day, times_this_day, lead_time_seconds_)
        good_indices == good_indices_of(radar_times, satellite_times, lead_time_seconds_)
        valid_times_unix_sec == [j \in DOMAIN good_indices |-> radar_times[good_indices[j]]]
        init_times_unix_sec ==
            [j \in DOMAIN good_indices |-> radar_times[good_indices[j]] - lead_time_seconds_]
        radar_dict == subset_by_time(radar_times, valid_times_unix_sec)
        satellite_dict == subset_by_time(satellite_times, init_times_unix_sec)
    IN  IF Len(good_indices) = 0 THEN {NoneReturned}
        ELSE IF ~radar_dict.ok \/ ~satellite_dict.ok THEN {ErrorRaised}
        ELSE subsampled_data_dicts(satellite_dict.times, radar_dict.times,
                                   Len(good_indices), num_examples_to_read_,
                                   valid_times_unix_sec)

(* The set of things _read_preprocessed_inputs_one_day can return *)
read_preprocessed_inputs_one_day(target_times, times_prev_day, times_this_day, lead_time_seconds_, num_examples_to_read_) ==
    LET predictor_times ==
            loaded_predictor_times(times_prev_day, times_this_day, lead_time_seconds_)
        good_indices == good_indices_of(target_times, predictor_times, lead_time_seconds_)
        valid_times_unix_sec == [j \in DOMAIN good_indices |-> target_times[good_indices[j]]]
        init_times_unix_sec ==
            [j \in DOMAIN good_indices |-> target_times[good_indices[j]] - lead_time_seconds_]
        predictor_dict == subset_by_time(predictor_times, init_times_unix_sec)
        target_dict == subset_by_time(target_times, init_times_unix_sec)
    IN  IF Len(good_indices) = 0 THEN {NoneReturned}
        ELSE IF ~predictor_dict.ok \/ ~target_dict.ok THEN {ErrorRaised}
        ELSE subsampled_data_dicts(predictor_dict.times, target_dict.times,
                                   Len(good_indices), num_examples_to_read_,
                                   valid_times_unix_sec)

ReadFrame ==
    UNCHANGED <<option_dict, satellite_disk, radar_disk, num_examples_per_batch,
                max_examples_per_day_in_batch, num_aligned, satellite_file_names,
                radar_file_names, valid_date_strings, date_index,
                num_examples_in_memory, batch_dates, gen_pc, gen_error,
                shuffled_list, num_shuffles, num_days_read, last_date_read,
                num_batches, trainVars, metaVars, laterVars>>

ReadInit ==
    /\ pathway \in Pathways
    /\ lead_time_seconds \in LeadTimes
    /\ radar_valid_times \in {SortedSeq(S) : S \in SUBSET ThisDayTimes}
    /\ satellite_times_this_day \in {SortedSeq(S) : S \in SUBSET ThisDayTimes}
    /\ satellite_times_prev_day \in {SortedSeq(S) : S \in SUBSET PrevDayTimes}
    /\ num_examples_to_read \in 1..MaxExamplesToRead
    /\ data_dict = NoData
    /\ read_pc = "start"
    /\ option_dict = <<>>
    /\ satellite_disk = {}
    /\ radar_disk = {}
    /\ num_aligned = [d \in DateWindow |-> 0]
    /\ gen_pc = "idle"
    /\ GenIdle
    /\ TrainIdle
    /\ MetaIdle
    /\ LaterIdle

ReadRawInputsOneDay ==
    /\ read_pc = "start"
    /\ pathway = "raw"
    /\ data_dict' \in
           read_raw_inputs_one_day(radar_valid_times, satellite_times_prev_day,
                                   satellite_times_this_day, lead_time_seconds,
                                   num_examples_to_read)
    /\ read_pc' = "done"
    /\ UNCHANGED <<pathway, lead_time_seconds, radar_valid_times,
                   satellite_times_prev_day, satellite_times_this_day,
                   num_examples_to_read>>
    /\ ReadFrame

ReadPreprocessedInputsOneDay ==
    /\ read_pc = "start"
    /\ pathway = "preprocessed"
    /\ data_dict' \in
           read_preprocessed_inputs_one_day(radar_valid_times, satellite_times_prev_day,
                                            satellite_times_this_day, lead_time_seconds,
                                            num_examples_to_read)
    /\ read_pc' = "done"
    /\ UNCHANGED <<pathway, lead_time_seconds, radar_valid_times,
                   satellite_times_prev_day, satellite_times_this_day,
                   num_examples_to_read>>
    /\ ReadFrame

ReadNext == ReadRawInputsOneDay \/ ReadPreprocessedInputsOneDay

SpecRead == ReadInit /\ [][ReadNext]_vars

(* The target times of the day whose initialization time is among the       *)
(* predictor times loaded.                                                  *)
AlignedTargetTimes ==
    {t \in Range(radar_valid_times) :
        (t - lead_time_seconds) \in
            Range(loaded_predictor_times(satellite_times_prev_day,
                                         satellite_times_this_day, lead_time_seconds))}

ExamplesPairedAtLeadTime ==
    /\ Len(data_dict.predictor_matrix) = Len(data_dict.target_matrix)
    /\ \A i \in DOMAIN data_dict.predictor_matrix :
          /\ data_dict.target_matrix[i] - data_dict.predictor_matrix[i] = lead_time_seconds
          /\ data_dict.target_matrix[i] \in AlignedTargetTimes

(* C5: every example _read_preprocessed_inputs_one_day returns pairs the    *)
(* predictor of time t - L with the target of valid time t, t being one of  *)
(* the day's target times whose t - L is among the predictor times loaded.  *)
C5_PreprocessedPairsAtLeadTime ==
    (read_pc = "done" /\ pathway = "preprocessed" /\ data_dict.kind = "data")
        => ExamplesPairedAtLeadTime

(* The raw-file reader does pair its examples that way. *)
RawPairsAtLeadTime ==
    (read_pc = "done" /\ pathway = "raw" /\ data_dict.kind = "data")
        => ExamplesPairedAtLeadTime

----------------------------------------------------------------------------
(* train_model_from_raw_files and train_model_from_preprocessed_files.      *)
(* An argument is a typed value, so that a non-integer or a non-Boolean can *)
(* be passed; a real number is held in hundredths.                          *)

IntegerValue(n) == [type |-> "int", array |-> <<100 * n>>]
FloatValue(hundredths) == [type |-> "float", array |-> <<hundredths>>]
BooleanValue(b) == [type |-> "bool", array |-> <<IF b THEN 100 ELSE 0>>]
NoneValue == [type |-> "None", array |-> <<>>]
ArrayValue(hundredths) == [type |-> "array", array |-> hundredths]

(* Smallest values the training functions accept *)
MinEpochs == 2
MinBatchesPerEpoch == 10

(* Length class_weights must have *)
NumClasses == 2

NumEpochsValues ==
    {IntegerValue(MinEpochs - 1), IntegerValue(MinEpochs), FloatValue(100 * MinEpochs + 50)}

BatchesPerEpochValues ==
    {IntegerValue(MinBatchesPerEpoch - 1), IntegerValue(MinBatchesPerEpoch)}

EarlyStoppingValues == {BooleanValue(TRUE), BooleanValue(FALSE), IntegerValue(1)}

PlateauMultiplierValues == {FloatValue(0), FloatValue(50), FloatValue(100)}

ClassWeightValues ==
    {NoneValue, ArrayValue(<<100, 100>>), ArrayValue(<<0, 100>>), ArrayValue(<<100>>)}

TrainArgs ==
    [num_epochs : NumEpochsValues,
     num_training_batches_per_epoch : BatchesPerEpochValues,
     num_validation_batches_per_epoch : BatchesPerEpochValues,
     do_early_stopping : EarlyStoppingValues,
     plateau_lr_multiplier : PlateauMultiplierValues,
     class_weights : ClassWeightValues]

(* error_checking.assert_is_integer followed by assert_is_geq *)
is_integer_geq(x, minimum) == x.type = "int" /\ x.array[1] >= 100 * minimum

(* check_class_weights: a length-2 array of positive numbers *)
class_weights_ok(class_weights) ==
    /\ class_weights.type = "array"
    /\ Len(class_weights.array) = NumClasses
    /\ \A i \in DOMAIN class_weights.array : class_weights.array[i] > 0

(* Lines 1082-1095 (1204-1217): the error the argument checks raise, "none" *)
(* if they all pass.                                                        *)
train_args_error(args) ==
    IF ~is_integer_geq(args.num_epochs, MinEpochs) THEN "InvalidInput"
    ELSE IF ~is_integer_geq(args.num_training_batches_per_epoch, MinBatchesPerEpoch)
        THEN "InvalidInput"
    ELSE IF ~is_integer_geq(args.num_validation_batches_per_epoch, MinBatchesPerEpoch)
        THEN "InvalidInput"
    ELSE IF args.do_early_stopping.type # "bool" THEN "InvalidInput"
    ELSE IF /\ args.do_early_stopping.array[1] # 0
            /\ ~(args.plateau_lr_multiplier.array[1] > 0)
        THEN "InvalidInput"
    ELSE IF /\ args.do_early_stopping.array[1] # 0
            /\ ~(args.plateau_lr_multiplier.array[1] < 100)
        THEN "InvalidInput"
    ELSE IF args.class_weights.type # "None" /\ ~class_weights_ok(args.class_weights)
        THEN "InvalidInput"
    ELSE "none"

(* A merge that keeps nothing of the caller's validation dictionary. *)
no_keys_to_keep(pathway_) == {}

validation_keys_to_keep(pathway_) ==
    IF pathway_ = "raw"
    THEN {SATELLITE_DIRECTORY_KEY, RADAR_DIRECTORY_KEY,
          FIRST_VALID_DATE_KEY, LAST_VALID_DATE_KEY}
    ELSE {PREDICTOR_DIRECTORY_KEY, TARGET_DIRECTORY_KEY,
          FIRST_VALID_DATE_KEY, LAST_VALID_DATE_KEY}

(* The loop of lines 1104-1108 (1226-1230) on the validation dictionary. *)
merged_validation_dict(validation_dict, training_dict, pathway_) ==
    [k \in DOMAIN validation_dict \cup (DOMAIN training_dict \ validation_keys_to_keep(pathway_)) |->
        IF k \in DOMAIN training_dict /\ k \notin validation_keys_to_keep(pathway_)
        THEN training_dict[k]
        ELSE validation_dict[k]]

(* _write_metafile: the dictionary it dumps *)
written_metadata_dict(args, training_dict, validation_dict) ==
    (NUM_EPOCHS_KEY :> args.num_epochs) @@
    (NUM_TRAINING_BATCHES_KEY :> args.num_training_batches_per_epoch) @@
    (TRAINING_OPTIONS_KEY :> training_dict) @@
    (NUM_VALIDATION_BATCHES_KEY :> args.num_validation_batches_per_epoch) @@
    (VALIDATION_OPTIONS_KEY :> validation_dict) @@
    (EARLY_STOPPING_KEY :> args.do_early_stopping) @@
    (PLATEAU_LR_MUTIPLIER_KEY :> args.plateau_lr_multiplier) @@
    (CLASS_WEIGHTS_KEY :> args.class_weights)

(* Bounds of the training run *)

MaxTrainingSteps == 2

MaxEpochsDone == 1

(* Dictionaries a caller passes: the four entries naming the inputs, and    *)
(* possibly a batch size and a lead time.                                   *)
InputOptionDict(pathway_, dir_name, first_date, last_date) ==
    (IF pathway_ = "raw"
     THEN (SATELLITE_DIRECTORY_KEY :> dir_name) @@ (RADAR_DIRECTORY_KEY :> dir_name)
     ELSE (PREDICTOR_DIRECTORY_KEY :> dir_name) @@ (TARGET_DIRECTORY_KEY :> dir_name)) @@
    (FIRST_VALID_DATE_KEY :> first_date) @@
    (LAST_VALID_DATE_KEY :> last_date)

OptionalEntries(batch_sizes, lead_times) ==
    {DictUpdate(b, l) :
        b \in {<<>>} \cup {(BATCH_SIZE_KEY :> n) : n \in batch_sizes},
        l \in {<<>>} \cup {(LEAD_TIME_KEY :> t) : t \in lead_times}}

TrainingOptionDicts(pathway_) ==
    {DictUpdate(InputOptionDict(pathway_, "training_dir", FirstValidDate, LastValidDate), e) :
        e \in OptionalEntries({MinBatchSize - 1, MinBatchSize + 2}, LeadTimes)}

ValidationOptionDicts(pathway_) ==
    {DictUpdate(InputOptionDict(pathway_, "validation_dir", Calendar[2], Calendar[2]), e) :
        e \in OptionalEntries({MinBatchSize + 1}, {TimeStep + TimeStep})}

(* Variables of the generators, the reader and read_metafile, unused here *)
TrainFrame == UNCHANGED <<genVars, readVars, metaVars, laterVars>>

TrainInit ==
    /\ pathway \in Pathways
    /\ train_pc = "called"
    /\ train_error = "none"
    /\ train_args \in TrainArgs
    /\ training_option_dict_arg \in TrainingOptionDicts(pathway)
    /\ validation_option_dict_arg \in ValidationOptionDicts(pathway)
    /\ validation_option_dict_given = validation_option_dict_arg
    /\ training_option_dict = training_option_dict_arg
    /\ validation_option_dict = validation_option_dict_arg
    /\ output_dir_existed \in BOOLEAN
    /\ output_dir_exists = output_dir_existed
    /\ metafile_state = "absent"
    /\ metafile_contents = <<>>
    /\ history_file_exists = FALSE
    /\ model_file_exists = FALSE
    /\ num_generators = 0
    /\ num_data_files_read = 0
    /\ num_training_steps = 0
    /\ num_epochs_done = 0
    /\ option_dict = <<>>
    /\ satellite_disk = {}
    /\ radar_disk = {}
    /\ lead_time_seconds = 0
    /\ num_aligned = [d \in DateWindow |-> 0]
    /\ gen_pc = "idle"
    /\ GenIdle
    /\ ReadIdle
    /\ MetaIdle
    /\ LaterIdle

TrainRaise(kind) ==
    /\ train_pc' = "raised"
    /\ train_error' = kind

(* Lines 1078-1080 (1200-1202): mkdir_recursive_if_necessary(output_dir_name) *)
TrainMakeOutputDir ==
    /\ train_pc = "called"
    /\ output_dir_exists' = TRUE
    /\ train_pc' = "check_args"
    /\ UNCHANGED <<train_error, train_args, training_option_dict_arg,
                   validation_option_dict_arg, validation_option_dict_given,
                   training_option_dict, validation_option_dict, output_dir_existed,
                   metafile_state, metafile_contents, history_file_exists,
                   model_file_exists, num_generators, num_data_files_read,
                   num_training_steps, num_epochs_done>>
    /\ TrainFrame

(* Lines 1082-1095 (1204-1217): the checks of the scalar arguments *)
TrainCheckArgs ==
    /\ train_pc = "check_args"
    /\ IF train_args_error(train_args) # "none"
       THEN TrainRaise(train_args_error(train_args))
       ELSE train_pc' = "merge_options" /\ UNCHANGED train_error
    /\ UNCHANGED <<train_args, training_option_dict_arg,
                   validation_option_dict_arg, validation_option_dict_given,
                   training_option_dict, validation_option_dict, output_dir_existed,
                   output_dir_exists, metafile_state, metafile_contents,
                   history_file_exists, model_file_exists, num_generators,
                   num_data_files_read, num_training_steps, num_epochs_done>>
    /\ TrainFrame

(* Lines 1097-1110 (1219-1232): the training dictionary is checked and      *)
(* defaulted into a new dictionary; the loop writes into the caller's       *)
(* validation dictionary; that one is then checked and defaulted too.       *)
TrainMergeOptions ==
    /\ train_pc = "merge_options"
    /\ IF generator_args_error(training_option_dict_arg) # "none"
       THEN /\ TrainRaise(generator_args_error(training_option_dict_arg))
            /\ UNCHANGED <<training_option_dict, validation_option_dict_arg,
                           validation_option_dict>>
       ELSE LET training_dict == defaulted_option_dict(training_option_dict_arg)
                validation_dict ==
                    merged_validation_dict(validation_option_dict_arg, training_dict, pathway)
            IN  /\ training_option_dict' = training_dict
                /\ validation_option_dict_arg' = validation_dict
                /\ IF generator_args_error(validation_dict) # "none"
                   THEN /\ TrainRaise(generator_args_error(validation_dict))
                        /\ validation_option_dict' = validation_dict
                   ELSE /\ validation_option_dict' = defaulted_option_dict(validation_dict)
                        /\ train_pc' = "make_callbacks"
                        /\ UNCHANGED train_error
    /\ UNCHANGED <<train_args, training_option_dict_arg, validation_option_dict_given,
                   output_dir_existed, output_dir_exists, metafile_state,
                   metafile_contents, history_file_exists, model_file_exists,
                   num_generators, num_data_files_read, num_training_steps,
                   num_epochs_done>>
    /\ TrainFrame

(* The metadata file is left for after the generators are made. *)
TrainMakeCallbacks_metafile_skipped ==
    /\ train_pc = "make_callbacks"
    /\ train_pc' = "make_generators"
    /\ UNCHANGED <<train_error, train_args, training_option_dict_arg,
                   validation_option_dict_arg, validation_option_dict_given,
                   training_option_dict, validation_option_dict, output_dir_existed,
                   output_dir_exists, metafile_state, metafile_contents,
                   history_file_exists, model_file_exists, num_generators,
                   num_data_files_read, num_training_steps, num_epochs_done>>
    /\ TrainFrame

(* Lines 1115-1145 (1237-1263): the callback objects are built and the name *)
(* of the metadata file is found; no file is touched.                       *)
TrainMakeCallbacks ==
    /\ train_pc = "make_callbacks"
    /\ train_pc' = "write_metafile"
    /\ UNCHANGED <<train_error, train_args, training_option_dict_arg,
                   validation_option_dict_arg, validation_option_dict_given,
                   training_option_dict, validation_option_dict, output_dir_existed,
                   output_dir_exists, metafile_state, metafile_contents,
                   history_file_exists, model_file_exists, num_generators,
                   num_data_files_read, num_training_steps, num_epochs_done>>
    /\ TrainFrame

(* _write_metafile, lines 498-500: the file is opened for writing *)
TrainOpenMetafile ==
    /\ train_pc = "write_metafile"
    /\ metafile_state' = "open"
    /\ metafile_contents' = <<>>
    /\ train_pc' = "dump_metafile"
    /\ UNCHANGED <<train_error, train_args, training_option_dict_arg,
                   validation_option_dict_arg, validation_option_dict_given,
                   training_option_dict, validation_option_dict, output_dir_existed,
                   output_dir_exists, history_file_exists, model_file_exists,
                   num_generators, num_data_files_read, num_training_steps,
                   num_epochs_done>>
    /\ TrainFrame

(* _write_metafile, lines 501-502: the dictionary is dumped, the file closed *)
TrainDumpMetafile ==
    /\ train_pc = "dump_metafile"
    /\ metafile_contents' =
           written_metadata_dict(train_args, training_option_dict, validation_option_dict)
    /\ metafile_state' = "complete"
    /\ train_pc' = "make_generators"
    /\ UNCHANGED <<train_error, train_args, training_option_dict_arg,
                   validation_option_dict_arg, validation_option_dict_given,
                   training_option_dict, validation_option_dict, output_dir_existed,
                   output_dir_exists, history_file_exists, model_file_exists,
                   num_generators, num_data_files_read, num_training_steps,
                   num_epochs_done>>
    /\ TrainFrame

(* Lines 1157-1158 (1275-1278): the two generator objects are made; their   *)
(* bodies have not run.                                                     *)
TrainMakeGenerators ==
    /\ train_pc = "make_generators"
    /\ num_generators' = num_generators + 2
    /\ train_pc' = "fit"
    /\ UNCHANGED <<train_error, train_args, training_option_dict_arg,
                   validation_option_dict_arg, validation_option_dict_given,
                   training_option_dict, validation_option_dict, output_dir_existed,
                   output_dir_exists, metafile_state, metafile_contents,
                   history_file_exists, model_file_exists, num_data_files_read,
                   num_training_steps, num_epochs_done>>
    /\ TrainFrame

(* model_object.fit_generator, lines 1160-1166 (1280-1286).  Training      *)
(* begins: the CSVLogger callback opens history.csv.                        *)
FitBegin ==
    /\ train_pc = "fit"
    /\ history_file_exists' = TRUE
    /\ train_pc' = "training"
    /\ UNCHANGED <<train_error, train_args, training_option_dict_arg,
                   validation_option_dict_arg, validation_option_dict_given,
                   training_option_dict, validation_option_dict, output_dir_existed,
                   output_dir_exists, metafile_state, metafile_contents,
                   model_file_exists, num_generators, num_data_files_read,
                   num_training_steps, num_epochs_done>>
    /\ TrainFrame

(* A batch is asked of the training generator, which reads data files to    *)
(* make it; one training step is run on the batch.                          *)
FitTrainingStep ==
    /\ train_pc = "training"
    /\ num_training_steps < MaxTrainingSteps
    /\ num_data_files_read' = num_data_files_read + 1
    /\ num_training_steps' = num_training_steps + 1
    /\ UNCHANGED <<train_pc, train_error, train_args, training_option_dict_arg,
                   validation_option_dict_arg, validation_option_dict_given,
                   training_option_dict, validation_option_dict, output_dir_existed,
                   output_dir_exists, metafile_state, metafile_contents,
                   history_file_exists, model_file_exists, num_generators,
                   num_epochs_done>>
    /\ TrainFrame

(* A generator raises when asked for a batch (lines 851-855, 983-987: no    *)
(* valid date was found); the error leaves fit_generator and the function.  *)
FitGeneratorRaises ==
    /\ train_pc = "training"
    /\ TrainRaise("NotFound")
    /\ UNCHANGED <<train_args, training_option_dict_arg,
                   validation_option_dict_arg, validation_option_dict_given,
                   training_option_dict, validation_option_dict, output_dir_existed,
                   output_dir_exists, metafile_state, metafile_contents,
                   history_file_exists, model_file_exists, num_generators,
                   num_data_files_read, num_training_steps, num_epochs_done>>
    /\ TrainFrame

(* An epoch ends: the validation generator is read, the ModelCheckpoint     *)
(* callback saves model.h5.                                                 *)
FitEpochEnd ==
    /\ train_pc = "training"
    /\ num_training_steps > 0
    /\ num_epochs_done < MaxEpochsDone
    /\ num_data_files_read' = num_data_files_read + 1
    /\ model_file_exists' = TRUE
    /\ num_epochs_done' = num_epochs_done + 1
    /\ UNCHANGED <<train_pc, train_error, train_args, training_option_dict_arg,
                   validation_option_dict_arg, validation_option_dict_given,
                   training_option_dict, validation_option_dict, output_dir_existed,
                   output_dir_exists, metafile_state, metafile_contents,
                   history_file_exists, num_generators, num_training_steps>>
    /\ TrainFrame

(* fit_generator returns, and with it the training function. *)
FitReturn ==
    /\ train_pc = "training"
    /\ num_epochs_done > 0
    /\ train_pc' = "done"
    /\ UNCHANGED <<train_error, train_args, training_option_dict_arg,
                   validation_option_dict_arg, validation_option_dict_given,
                   training_option_dict, validation_option_dict, output_dir_existed,
                   output_dir_exists, metafile_state, metafile_contents,
                   history_file_exists, model_file_exists, num_generators,
                   num_data_files_read, num_training_steps, num_epochs_done>>
    /\ TrainFrame

TrainNext ==
    \/ TrainMakeOutputDir
    \/ TrainCheckArgs
    \/ TrainMergeOptions
    \/ TrainMakeCallbacks
    \/ TrainOpenMetafile
    \/ TrainDumpMetafile
    \/ TrainMakeGenerators
    \/ FitBegin
    \/ FitTrainingStep
    \/ FitGeneratorRaises
    \/ FitEpochEnd
    \/ FitReturn

SpecTrain == TrainInit /\ [][TrainNext]_vars

(* C7: when a training function raises because one of its scalar arguments  *)
(* is invalid, it raises InvalidInput and has done no work: the output      *)
(* directory has not been created, no metadata, history or model file       *)
(* exists and no data file has been read.                                   *)
C7_InvalidInputBeforeAnyWork ==
    (train_pc = "raised" /\ train_args_error(train_args) # "none")
        => /\ train_error = "InvalidInput"
           /\ output_dir_exists = output_dir_existed
           /\ metafile_state = "absent"
           /\ ~history_file_exists
           /\ ~model_file_exists
           /\ num_data_files_read = 0

(* Apart from the output directory, nothing is left behind. *)
InvalidInputLeavesNoFile ==
    (train_pc = "raised" /\ train_args_error(train_args) # "none")
        => /\ train_error = "InvalidInput"
           /\ metafile_state = "absent"
           /\ ~history_file_exists
           /\ ~model_file_exists
           /\ num_data_files_read = 0

TrainingStarted ==
    \/ num_data_files_read > 0
    \/ num_training_steps > 0
    \/ history_file_exists
    \/ train_pc \in {"training", "done"}
    \/ (train_pc = "raised" /\ train_error = "NotFound")

MetafileComplete ==
    /\ metafile_state = "complete"
    /\ DOMAIN metafile_contents = Range(METADATA_KEYS)
    /\ Cardinality(DOMAIN metafile_contents) = 8
    /\ metafile_contents =
           written_metadata_dict(train_args, training_option_dict, validation_option_dict)

(* C8: once a generator has read a data file, a training step has run, or   *)
(* training has begun, failed or finished, the metadata file is completely  *)
(* written, with all eight keys.                                            *)
C8_MetafileWrittenBeforeTraining == TrainingStarted => MetafileComplete

(* Training failed after a step had been run on data read from files. *)
C8_Witness ==
    /\ train_pc = "raised"
    /\ train_error = "NotFound"
    /\ num_training_steps > 0
    /\ num_data_files_read > 0
    /\ MetafileComplete

(* The four keys naming a pathway's inputs *)
InputKeys(pathway_) ==
    {IF pathway_ = "raw" THEN SATELLITE_DIRECTORY_KEY ELSE PREDICTOR_DIRECTORY_KEY,
     IF pathway_ = "raw" THEN RADAR_DIRECTORY_KEY ELSE TARGET_DIRECTORY_KEY,
     FIRST_VALID_DATE_KEY, LAST_VALID_DATE_KEY}

OptionsMerged ==
    \/ train_pc \in {"make_callbacks", "write_metafile", "dump_metafile",
                     "make_generators", "fit", "training", "done"}
    \/ (train_pc = "raised" /\ train_error = "NotFound")

(* C9: after the merge, the validation dictionary equals the defaulted      *)
(* training dictionary on every key of the latter but the pathway's two     *)
(* directory keys and the two date keys; on those four it holds what the    *)
(* caller passed; the training dictionary is the caller's, defaulted.       *)
C9_ValidationInheritsTrainingOptions ==
    OptionsMerged =>
        /\ training_option_dict = defaulted_option_dict(training_option_dict_arg)
        /\ \A k \in DOMAIN training_option_dict \ InputKeys(pathway) :
              /\ k \in DOMAIN validation_option_dict
              /\ validation_option_dict[k] = training_option_dict[k]
        /\ \A k \in InputKeys(pathway) \cap DOMAIN validation_option_dict_given :
              /\ k \in DOMAIN validation_option_dict
              /\ validation_option_dict[k] = validation_option_dict_given[k]

(* The caller's validation dictionary had another batch size and lead time  *)
(* than the training dictionary, and other directories and dates.           *)
C9_Witness ==
    /\ OptionsMerged
    /\ BATCH_SIZE_KEY \in DOMAIN validation_option_dict_given
    /\ BATCH_SIZE_KEY \notin DOMAIN training_option_dict_arg
    /\ LEAD_TIME_KEY \in DOMAIN validation_option_dict_given
    /\ validation_option_dict_given[BATCH_SIZE_KEY] # validation_option_dict[BATCH_SIZE_KEY]
    /\ validation_option_dict_given[LEAD_TIME_KEY] # validation_option_dict[LEAD_TIME_KEY]
    /\ \A k \in InputKeys(pathway) :
          validation_option_dict[k] # training_option_dict[k]

----------------------------------------------------------------------------
(* read_metafile, on a metadata file holding any part of the eight keys.    *)

(* The loaded dictionary is left as the file has it. *)
class_weights_not_filled(metadata_dict_) == metadata_dict_

(* Lines 1371-1372: a missing class_weights entry is set to None *)
class_weights_filled(metadata_dict_) ==
    IF CLASS_WEIGHTS_KEY \notin DOMAIN metadata_dict_
    THEN DictUpdate(metadata_dict_, CLASS_WEIGHTS_KEY :> "None")
    ELSE metadata_dict_

(* Dictionaries a metadata file can hold *)
StoredDicts ==
    {[k \in K |-> IF k = CLASS_WEIGHTS_KEY THEN w ELSE "stored"] :
        K \in SUBSET Range(METADATA_KEYS), w \in {"None", "stored"}}

MetaFrame == UNCHANGED <<genVars, readVars, trainVars, laterVars>>

MetaInit ==
    /\ metafile_state \in {"absent", "complete"}
    /\ metafile_contents \in StoredDicts
    /\ metafile_state = "absent" => metafile_contents = <<>>
    /\ meta_pc = "start"
    /\ meta_error = "none"
    /\ missing_keys = {}
    /\ metadata_dict = <<>>
    /\ TrainCallIdle
    /\ pathway = "raw"
    /\ option_dict = <<>>
    /\ satellite_disk = {}
    /\ radar_disk = {}
    /\ lead_time_seconds = 0
    /\ num_aligned = [d \in DateWindow |-> 0]
    /\ gen_pc = "idle"
    /\ GenIdle
    /\ ReadIdle
    /\ LaterIdle

(* Line 1365: assert_file_exists fails *)
ReadMetafileAbsent ==
    /\ meta_pc = "start"
    /\ metafile_state # "complete"
    /\ meta_pc' = "raised"
    /\ meta_error' = "InvalidInput"
    /\ UNCHANGED <<missing_keys, metadata_dict>>
    /\ MetaFrame

(* Lines 1367-1384 *)
ReadMetafile ==
    /\ meta_pc = "start"
    /\ metafile_state = "complete"
    /\ LET loaded_dict == class_weights_filled(metafile_contents)
           missing == Range(METADATA_KEYS) \ DOMAIN loaded_dict
       IN  IF missing = {}
           THEN /\ metadata_dict' = loaded_dict
                /\ meta_pc' = "returned"
                /\ UNCHANGED <<meta_error, missing_keys>>
           ELSE /\ missing_keys' = missing
                /\ meta_error' = "InvalidData"
                /\ meta_pc' = "raised"
                /\ UNCHANGED metadata_dict
    /\ MetaFrame

MetaNext == ReadMetafileAbsent \/ ReadMetafile

SpecMeta == MetaInit /\ [][MetaNext]_vars

(* The seven required keys other than class_weights *)
KeysWithoutDefault == Range(METADATA_KEYS) \ {CLASS_WEIGHTS_KEY}

(* read_metafile returns iff the file has those seven keys, and returns the *)
(* stored record, with class_weights None if the file has none.             *)
ReturnsStoredRecord ==
    /\ (meta_pc = "returned") <=> (KeysWithoutDefault \subseteq DOMAIN metafile_contents)
    /\ meta_pc = "returned" =>
          /\ DOMAIN metadata_dict = DOMAIN metafile_contents \cup {CLASS_WEIGHTS_KEY}
          /\ \A k \in DOMAIN metafile_contents : metadata_dict[k] = metafile_contents[k]
          /\ CLASS_WEIGHTS_KEY \notin DOMAIN metafile_contents
                => metadata_dict[CLASS_WEIGHTS_KEY] = "None"

MetafileWasRead == meta_pc # "start" /\ metafile_state = "complete"

(* C10: read_metafile returns the stored record iff the seven keys other    *)
(* than class_weights are present, a missing class_weights being filled     *)
(* with None; otherwise it fails with InvalidData and the keys it reports   *)
(* are exactly the required keys absent from the file.                      *)
C10_ReportsEveryAbsentKey ==
    MetafileWasRead =>
        /\ ReturnsStoredRecord
        /\ meta_pc = "raised" =>
              /\ meta_error = "InvalidData"
              /\ missing_keys = Range(METADATA_KEYS) \ DOMAIN metafile_contents

(* C10, amended: as above, but the keys reported are the absent ones among  *)
(* the seven keys other than class_weights; class_weights is never          *)
(* reported, absent or not.                                                 *)
C10_ReportsAbsentKeysButClassWeights ==
    MetafileWasRead =>
        /\ ReturnsStoredRecord
        /\ meta_pc = "raised" =>
              /\ meta_error = "InvalidData"
              /\ missing_keys = KeysWithoutDefault \ DOMAIN metafile_contents

(* A file without class_weights and without another key was read: the      *)
(* error lists the other key only.                                          *)
C10_Witness ==
    /\ MetafileWasRead
    /\ meta_pc = "raised"
    /\ CLASS_WEIGHTS_KEY \notin DOMAIN metafile_contents
    /\ missing_keys # {}
    /\ CLASS_WEIGHTS_KEY \notin missing_keys

----------------------------------------------------------------------------
(* read_model.  tf_keras.models.load_model is outside the repository: what  *)
(* it does with a given file is a choice of the environment, fixed when the *)
(* call starts.  It raises ValueError when the file names a custom object   *)
(* the table lacks; it can fail otherwise too (an unreadable file).         *)

LoadOutcomes == {"ok", "ValueError", "OSError"}

(* The loss is put in the table whatever class_weights is. *)
retry_custom_objects_always_loss(class_weights_) == {"metrics", "loss"}

(* Lines 1311-1316: keys of custom_object_dict on the retry *)
retry_custom_objects(class_weights_) ==
    {"metrics"} \cup (IF class_weights_ # "None" THEN {"loss"} ELSE {})

LoadUnchanged ==
    /\ UNCHANGED <<hdf5_file_exists, first_load_outcome, second_load_outcome>>
    /\ UNCHANGED <<genVars, readVars, trainVars>>
    /\ LoadLaterFrame

LoadInit ==
    /\ load_pc = "start"
    /\ load_error = "none"
    /\ hdf5_file_exists \in BOOLEAN
    /\ first_load_outcome \in LoadOutcomes
    /\ second_load_outcome \in LoadOutcomes
    /\ num_load_attempts = 0
    /\ num_metafile_accesses = 0
    /\ custom_object_dict = {}
    /\ loaded_class_weights = "unset"
    /\ metafile_state \in {"absent", "complete"}
    /\ metafile_contents \in StoredDicts
    /\ metafile_state = "absent" => metafile_contents = <<>>
    /\ GenUnused
    /\ ReadIdle
    /\ TrainCallIdle
    /\ MetaIdle
    /\ LoadOthersIdle

(* Line 1296: error_checking.assert_file_exists(hdf5_file_name) *)
LoadAssertFileExists ==
    /\ load_pc = "start"
    /\ IF hdf5_file_exists
       THEN load_pc' = "first_attempt" /\ UNCHANGED load_error
       ELSE load_pc' = "raised" /\ load_error' = "InvalidInput"
    /\ UNCHANGED <<num_load_attempts, num_metafile_accesses, custom_object_dict,
                   loaded_class_weights, metaVars>>
    /\ LoadUnchanged

(* Lines 1298-1303: load_model with METRIC_FUNCTION_DICT; a ValueError is   *)
(* swallowed, any other exception leaves the function.                      *)
LoadFirstAttempt ==
    /\ load_pc = "first_attempt"
    /\ num_load_attempts' = num_load_attempts + 1
    /\ custom_object_dict' = {"metrics"}
    /\ CASE first_load_outcome = "ok" ->
                load_pc' = "returned" /\ UNCHANGED load_error
         [] first_load_outcome = "ValueError" ->
                load_pc' = "find_metafile" /\ UNCHANGED load_error
         [] OTHER ->
                load_pc' = "raised" /\ load_error' = first_load_outcome
    /\ UNCHANGED <<num_metafile_accesses, loaded_class_weights, metaVars>>
    /\ LoadUnchanged

(* Lines 1305-1307: find_metafile(raise_error_if_missing=True), which looks *)
(* for <directory of the model>/model_metadata.dill (lines 1336-1344).      *)
LoadFindMetafile ==
    /\ load_pc = "find_metafile"
    /\ num_metafile_accesses' = num_metafile_accesses + 1
    /\ IF metafile_state = "absent"
       THEN load_pc' = "raised" /\ load_error' = "NotFound"
       ELSE load_pc' = "read_metafile" /\ UNCHANGED load_error
    /\ UNCHANGED <<num_load_attempts, custom_object_dict, loaded_class_weights, metaVars>>
    /\ LoadUnchanged

(* Lines 1309-1310: read_metafile, then class_weights is taken from it *)
LoadReadMetafile ==
    /\ load_pc = "read_metafile"
    /\ num_metafile_accesses' = num_metafile_accesses + 1
    /\ LET loaded_dict == class_weights_filled(metafile_contents)
           missing == Range(METADATA_KEYS) \ DOMAIN loaded_dict
       IN  IF missing = {}
           THEN /\ metadata_dict' = loaded_dict
                /\ meta_pc' = "returned"
                /\ loaded_class_weights' = loaded_dict[CLASS_WEIGHTS_KEY]
                /\ load_pc' = "second_attempt"
                /\ UNCHANGED <<meta_error, missing_keys, load_error>>
           ELSE /\ missing_keys' = missing
                /\ meta_error' = "InvalidData"
                /\ meta_pc' = "raised"
                /\ load_pc' = "raised"
                /\ load_error' = "InvalidData"
                /\ UNCHANGED <<metadata_dict, loaded_class_weights>>
    /\ UNCHANGED <<num_load_attempts, custom_object_dict>>
    /\ LoadUnchanged

(* Lines 1311-1320: the metric table, plus the weighted cross-entropy loss  *)
(* if class_weights is not None; load_model again.                          *)
LoadSecondAttempt ==
    /\ load_pc = "second_attempt"
    /\ num_load_attempts' = num_load_attempts + 1
    /\ custom_object_dict' = retry_custom_objects(loaded_class_weights)
    /\ IF second_load_outcome = "ok"
       THEN load_pc' = "returned" /\ UNCHANGED load_error
       ELSE load_pc' = "raised" /\ load_error' = second_load_outcome
    /\ UNCHANGED <<num_metafile_accesses, loaded_class_weights, metaVars>>
    /\ LoadUnchanged

LoadNext ==
    \/ LoadAssertFileExists
    \/ LoadFirstAttempt
    \/ LoadFindMetafile
    \/ LoadReadMetafile
    \/ LoadSecondAttempt

SpecLoad == LoadInit /\ [][LoadNext]_vars

LoadFinished == load_pc \in {"returned", "raised"} /\ hdf5_file_exists

(* The metadata file exists and read_metafile accepts it. *)
MetadataReadable ==
    /\ metafile_state = "complete"
    /\ KeysWithoutDefault \subseteq DOMAIN metafile_contents

StoredClassWeightsNotNone ==
    /\ CLASS_WEIGHTS_KEY \in DOMAIN metafile_contents
    /\ metafile_contents[CLASS_WEIGHTS_KEY] # "None"

(* What read_model does, given when its first attempt counts as failed *)
RetryRule(first_failed) ==
    /\ num_load_attempts <= 2
    /\ num_load_attempts = 2 => (first_failed /\ num_metafile_accesses = 2)
    /\ LoadFinished =>
          /\ num_load_attempts >= 1
          /\ (first_failed /\ MetadataReadable) => num_load_attempts = 2
          /\ ~first_failed => (num_load_attempts = 1 /\ num_metafile_accesses = 0)
          /\ first_load_outcome = "ok" => load_pc = "returned"
          /\ (first_failed /\ metafile_state = "absent")
                => (load_pc = "raised" /\ load_error = "NotFound")
          /\ num_load_attempts = 2
                => ("loss" \in custom_object_dict <=> StoredClassWeightsNotNone)

(* C11: read_model calls load_model at most twice on an existing file; the  *)
(* second call happens iff the first fails, after the metadata file has     *)
(* been found and read; the metadata file is not touched when the first     *)
(* call succeeds; a failed first call with no metadata file ends in         *)
(* NotFound; the retry has the loss in its table iff the stored class       *)
(* weights are not None.                                                    *)
C11_RetryIffFirstAttemptFails == RetryRule(first_load_outcome # "ok")

(* C11, amended: the same, the first call counting as failed only when it   *)
(* raises ValueError; any other exception of the first call leaves          *)
(* read_model at once, with no retry and the metadata file not touched.     *)
C11_RetryIffFirstAttemptRaisesValueError ==
    /\ RetryRule(first_load_outcome = "ValueError")
    /\ (LoadFinished /\ first_load_outcome \notin {"ok", "ValueError"})
          => (load_pc = "raised" /\ load_error = first_load_outcome)

(* The first call raised ValueError, the metadata held class weights and    *)
(* the retry, with the loss in its table, returned the model.               *)
C11_Witness ==
    /\ LoadFinished
    /\ first_load_outcome = "ValueError"
    /\ num_load_attempts = 2
    /\ num_metafile_accesses = 2
    /\ "loss" \in custom_object_dict
    /\ load_pc = "returned"

----------------------------------------------------------------------------
(* apply_model.  An example of predictor_matrix is one value; the model's   *)
(* forecast for an example depends on that example only, so model_object is *)
(* a function from example to forecast.  NaN is written -1.                 *)

(* Bounds of the inference model *)

MaxExamples == 3

MaxInferenceBatchSize == 4

PredictorValues == {0, 1, 2}

ForecastValues == {0, 1}

BatchSizeArgs ==
    {[type |-> "None", value |-> 0]} \cup
    {[type |-> "int", value |-> n] : n \in 0..MaxInferenceBatchSize}

PredictorMatrices == UNION {[1..n -> PredictorValues] : n \in 1..MaxExamples}

(* _check_inference_args: the error it raises, "none" if it returns *)
inference_args_error(batch_size) ==
    IF batch_size.type # "None" /\ batch_size.value < 1 THEN "InvalidInput" ELSE "none"

(* _check_inference_args: the batch size it returns *)
checked_batch_size(batch_size, num_examples) ==
    IF batch_size.type = "None" THEN num_examples ELSE Min2(batch_size.value, num_examples)

(* The last example of a batch falls one short. *)
this_last_index_short(i, batch_size, num_examples) ==
    Min2(i + batch_size - 2, num_examples - 1)

(* Lines 1414-1416, indices counted from 0 *)
this_last_index(i, batch_size, num_examples) ==
    Min2(i + batch_size - 1, num_examples - 1)

(* The next batch starts one example too far. *)
next_first_index_skipping(i, batch_size) == i + batch_size + 1

(* Line 1412: range(0, num_examples, num_examples_per_batch) *)
next_first_index(i, batch_size) == i + batch_size

(* model_object.predict on the examples first..last (counted from 0) *)
predict(model, predictors, first, last) ==
    [j \in 1..(last - first + 1) |-> model[predictors[first + j]]]

ApplyUnchanged ==
    /\ UNCHANGED <<model_object, predictor_matrix, batch_size_arg>>
    /\ EarlierFrame
    /\ ApplyLaterFrame

ApplyInit ==
    /\ apply_pc = "start"
    /\ apply_error = "none"
    /\ model_object \in [PredictorValues -> ForecastValues]
    /\ predictor_matrix \in PredictorMatrices
    /\ batch_size_arg \in BatchSizeArgs
    /\ inference_batch_size = 0
    /\ first_index = 0
    /\ forecast_prob_matrix = <<>>
    /\ num_predict_calls = 0
    /\ predict_ranges = <<>>
    /\ EarlierIdle
    /\ ApplyOthersIdle

(* Lines 1404-1410: _check_inference_args, then the loop is set up *)
ApplyCheckArgs ==
    /\ apply_pc = "start"
    /\ IF inference_args_error(batch_size_arg) # "none"
       THEN /\ apply_pc' = "raised"
            /\ apply_error' = inference_args_error(batch_size_arg)
            /\ UNCHANGED inference_batch_size
       ELSE /\ apply_pc' = "loop"
            /\ inference_batch_size' =
                   checked_batch_size(batch_size_arg, Len(predictor_matrix))
            /\ UNCHANGED apply_error
    /\ UNCHANGED <<first_index, forecast_prob_matrix, num_predict_calls, predict_ranges>>
    /\ ApplyUnchanged

(* Lines 1412-1438: one pass of the loop over range(0, E, batch size) *)
ApplyOneBatch ==
    /\ apply_pc = "loop"
    /\ first_index < Len(predictor_matrix)
    /\ LET num_examples == Len(predictor_matrix)
           last_index == this_last_index(first_index, inference_batch_size, num_examples)
           this_prob_matrix == predict(model_object, predictor_matrix, first_index, last_index)
           allocated == IF forecast_prob_matrix = <<>>
                        THEN [i \in 1..num_examples |-> -1]
                        ELSE forecast_prob_matrix
       IN  forecast_prob_matrix' =
               [i \in 1..num_examples |->
                   IF first_index + 1 <= i /\ i <= last_index + 1
                   THEN this_prob_matrix[i - first_index]
                   ELSE allocated[i]]
    /\ num_predict_calls' = num_predict_calls + 1
    /\ predict_ranges' =
           Append(predict_ranges,
                  <<first_index,
                    this_last_index(first_index, inference_batch_size, Len(predictor_matrix))>>)
    /\ first_index' = next_first_index(first_index, inference_batch_size)
    /\ UNCHANGED <<apply_pc, apply_error, inference_batch_size>>
    /\ ApplyUnchanged

(* Line 1443: the loop is over, forecast_prob_matrix is returned *)
ApplyReturn ==
    /\ apply_pc = "loop"
    /\ first_index >= Len(predictor_matrix)
    /\ apply_pc' = "returned"
    /\ UNCHANGED <<apply_error, inference_batch_size, first_index,
                   forecast_prob_matrix, num_predict_calls, predict_ranges>>
    /\ ApplyUnchanged

ApplyNext == ApplyCheckArgs \/ ApplyOneBatch \/ ApplyReturn

SpecApply == ApplyInit /\ [][ApplyNext]_vars

(* The forecast of every example, each made from that example alone *)
ForecastOfEachExample ==
    [i \in 1..Len(predictor_matrix) |-> model_object[predictor_matrix[i]]]

(* C12: whatever num_examples_per_batch is (None, or an integer >= 1, also  *)
(* above the number of examples), apply_model returns for E >= 1 examples   *)
(* the array holding each example's own forecast, so the same array for     *)
(* every batch size.                                                        *)
C12_ForecastIndependentOfBatchSize ==
    /\ apply_pc = "returned" => forecast_prob_matrix = ForecastOfEachExample
    /\ (apply_pc \in {"loop", "returned"} /\ batch_size_arg.type # "None")
          => batch_size_arg.value >= 1
    /\ (apply_pc = "raised") => (batch_size_arg.type # "None" /\ batch_size_arg.value < 1)

(* Three examples went through the model in two batches of sizes 2 and 1. *)
C12_Witness ==
    /\ apply_pc = "returned"
    /\ Len(predictor_matrix) = 3
    /\ batch_size_arg = [type |-> "int", value |-> 2]
    /\ num_predict_calls = 2
    /\ forecast_prob_matrix = ForecastOfEachExample
    /\ model_object[0] # model_object[1]

----------------------------------------------------------------------------
(* echo_classification.py: find_convective_pixels and its five criteria.    *)
(* Reflectivities, heights and thresholds are whole numbers (dBZ, metres);  *)
(* NaN is written -1.  The grid has one row, so that the half-range of the  *)
(* latitudes in _neigh_metres_to_rowcol is 0 and its cosine exactly 1.      *)

DEGREES_LAT_TO_METRES == 60 * 1852

MIN_LATITUDE_KEY == "min_grid_point_latitude_deg"
LATITUDE_SPACING_KEY == "latitude_spacing_deg"
MIN_LONGITUDE_KEY == "min_grid_point_longitude_deg"
LONGITUDE_SPACING_KEY == "longitude_spacing_deg"
LATITUDES_KEY == "grid_point_latitudes_deg"
LONGITUDES_KEY == "grid_point_longitudes_deg"
HEIGHTS_KEY == "grid_point_heights_m_asl"

MELT_LEVEL_INTERCEPT_BY_MONTH_M_ASL ==
    <<7072, 7896, 8558, 7988, 7464, 6728, 6080, 6270, 6786, 8670, 8892, 7936>>

MELT_LEVEL_SLOPE_BY_MONTH_M_DEG01 ==
    <<-124, -152, -160, -128, -100, -65, -39, -44, -67, -137, -160, -147>>

PEAKEDNESS_NEIGH_KEY == "peakedness_neigh_metres"
MAX_PEAKEDNESS_HEIGHT_KEY == "max_peakedness_height_m_asl"
HALVE_RESOLUTION_KEY == "halve_resolution_for_peakedness"
MIN_ECHO_TOP_KEY == "min_echo_top_m_asl"
ECHO_TOP_LEVEL_KEY == "echo_top_level_dbz"
MIN_COMPOSITE_REFL_CRITERION1_KEY == "min_composite_refl_criterion1_dbz"
MIN_COMPOSITE_REFL_CRITERION5_KEY == "min_composite_refl_criterion5_dbz"
MIN_COMPOSITE_REFL_AML_KEY == "min_composite_refl_aml_dbz"

(* A threshold that may be None *)
Threshold(dbz) == [is_none |-> FALSE, dbz |-> dbz]
NoThreshold == [is_none |-> TRUE, dbz |-> 0]

(* DEFAULT_OPTION_DICT as the module defines it (lines 59-68) *)
DefaultOptionDictAtImport ==
    (PEAKEDNESS_NEIGH_KEY :> 12000) @@
    (MAX_PEAKEDNESS_HEIGHT_KEY :> 9000) @@
    (HALVE_RESOLUTION_KEY :> FALSE) @@
    (MIN_ECHO_TOP_KEY :> 10000) @@
    (ECHO_TOP_LEVEL_KEY :> 25) @@
    (MIN_COMPOSITE_REFL_CRITERION1_KEY :> Threshold(25)) @@
    (MIN_COMPOSITE_REFL_CRITERION5_KEY :> 25) @@
    (MIN_COMPOSITE_REFL_AML_KEY :> 45)

(* Shape of reflectivity_matrix_dbz *)
NumGridRows == grid_shape[1]
NumGridColumns == grid_shape[2]
NumHeights == grid_shape[3]

Pixels == (1..NumGridRows) \X (1..NumGridColumns)

Voxels == (1..NumGridRows) \X (1..NumGridColumns) \X (1..NumHeights)

ReflectivityValues == {-1, 0, 30, 50}

Max2(a, b) == IF a >= b THEN a ELSE b

Abs(x) == IF x >= 0 THEN x ELSE 0 - x

CeilDiv(a, b) == (a + b - 1) \div b

Count(S) == Cardinality(S)

(* numpy.max of a function over a non-empty index set *)
MaxOver(S, f(_)) == CHOOSE m \in {f(x) : x \in S} : \A x \in S : f(x) <= m

(* _estimate_melting_levels *)
estimate_melting_level(latitude_deg, valid_time_unix_sec) ==
    LET month_index == (unix_sec_to_string(valid_time_unix_sec) \div 100) % 100
    IN  MELT_LEVEL_INTERCEPT_BY_MONTH_M_ASL[month_index] +
        MELT_LEVEL_SLOPE_BY_MONTH_M_DEG01[month_index] * Abs(latitude_deg)

(* _neigh_metres_to_rowcol: <<num_rows, num_columns>> *)
neigh_metres_to_rowcol(neigh_radius_metres, metadata) ==
    LET y_spacing_metres == metadata[LATITUDE_SPACING_KEY] * DEGREES_LAT_TO_METRES
        mean_x_spacing_metres == metadata[LONGITUDE_SPACING_KEY] * DEGREES_LAT_TO_METRES
    IN  <<1 + 2 * CeilDiv(neigh_radius_metres, y_spacing_metres),
          1 + 2 * CeilDiv(neigh_radius_metres, mean_x_spacing_metres)>>

(* Value of a matrix at a pixel, 0 (cval) outside the grid *)
padded(matrix2d, i, j) ==
    IF <<i, j>> \in Pixels THEN matrix2d[<<i, j>>] ELSE 0

(* median_filter(size=(num_rows, num_columns), mode='constant', cval=0.) at *)
(* one pixel: the middle value of the neighbourhood.                        *)
median_filter_at(matrix2d, i, j, num_rows, num_columns) ==
    LET neigh == ((i - num_rows \div 2)..(i + num_rows \div 2)) \X
                 ((j - num_columns \div 2)..(j + num_columns \div 2))
        middle == (num_rows * num_columns + 1) \div 2
        below(v) == Count({q \in neigh : padded(matrix2d, q[1], q[2]) < v})
        upto(v) == Count({q \in neigh : padded(matrix2d, q[1], q[2]) <= v})
    IN  CHOOSE v \in {padded(matrix2d, q[1], q[2]) : q \in neigh} :
            below(v) < middle /\ upto(v) >= middle

(* _get_peakedness at one voxel *)
peakedness_at(refl, i, j, k, num_rows, num_columns) ==
    refl[<<i, j, k>>] -
        median_filter_at([p \in Pixels |-> refl[<<p[1], p[2], k>>]], i, j,
                         num_rows, num_columns)

(* peakedness > _get_peakedness_thresholds, the threshold being             *)
(* max(4, 10 - Z^2 / 337.5)                                                 *)
exceeds_peakedness_threshold(peakedness_dbz, reflectivity_dbz) ==
    /\ peakedness_dbz > 4
    /\ 675 * peakedness_dbz > 6750 - 2 * reflectivity_dbz * reflectivity_dbz

(* numpy.max(reflectivity_matrix_dbz, axis=-1) at one pixel *)
composite_refl(refl, p) ==
    MaxOver(1..NumHeights, LAMBDA k : refl[<<p[1], p[2], k>>])

(* Lines 341-348 of _apply_convective_criterion1: the index, from 1, of the *)
(* last height level used: the first level at or above the maximum          *)
(* peakedness height, or the last level if there is none.                   *)
criterion1_max_height_index(heights, max_peakedness_height_m_asl) ==
    LET aloft_indices == {k \in DOMAIN heights : heights[k] >= max_peakedness_height_m_asl}
    IN  IF aloft_indices = {} THEN Len(heights)
        ELSE CHOOSE k \in aloft_indices : \A l \in aloft_indices : k <= l

(* numerator.astype(float) / denominator >= 0.5 in floating point: n / 0 is *)
(* +inf for n > 0, which is >= 0.5, and 0 / 0 is NaN, which is not.         *)
fraction_geq_half(numerator, denominator) ==
    IF denominator = 0 THEN numerator > 0 ELSE 2 * numerator >= denominator

(* _apply_convective_criterion1 without halving of the resolution: the set *)
(* of pixels where at least half the voxels with echo, up to the maximum    *)
(* peakedness height, exceed the peakedness threshold, and the composite    *)
(* reflectivity reaches the threshold if there is one.                      *)
apply_convective_criterion1(refl, peakedness_neigh_metres, max_peakedness_height_m_asl, min_composite_refl_dbz, metadata) ==
    LET max_height_index == criterion1_max_height_index(metadata[HEIGHTS_KEY], max_peakedness_height_m_asl)
        rowcol == neigh_metres_to_rowcol(peakedness_neigh_metres, metadata)
        numerator(p) ==
            Count({k \in 1..max_height_index :
                exceeds_peakedness_threshold(
                    peakedness_at(refl, p[1], p[2], k, rowcol[1], rowcol[2]),
                    refl[<<p[1], p[2], k>>])})
        denominator(p) == Count({k \in 1..max_height_index : refl[<<p[1], p[2], k>>] > 0})
    IN  {p \in Pixels :
            /\ fraction_geq_half(numerator(p), denominator(p))
            /\ min_composite_refl_dbz.is_none
                  \/ composite_refl(refl, p) >= min_composite_refl_dbz.dbz}

(* The flags so far are dropped instead of OR-ed in. *)
apply_convective_criterion2_flags_dropped(refl, flags, metadata, valid_time_unix_sec, min_composite_refl_aml_dbz) ==
    LET heights == metadata[HEIGHTS_KEY]
        melting_level(p) ==
            estimate_melting_level(metadata[LATITUDES_KEY][p[1]], valid_time_unix_sec)
        refl_aml(p, k) ==
            (IF heights[k] >= melting_level(p) + 1000 THEN 1 ELSE 0) * refl[<<p[1], p[2], k>>]
        composite_refl_aml(p) == MaxOver(1..NumHeights, LAMBDA k : refl_aml(p, k))
    IN  {p \in Pixels : composite_refl_aml(p) >= min_composite_refl_aml_dbz}

(* _apply_convective_criterion2: flagged already, or composite reflectivity *)
(* 1000 m or more above the melting level >= threshold.                     *)
apply_convective_criterion2(refl, flags, metadata, valid_time_unix_sec, min_composite_refl_aml_dbz) ==
    LET heights == metadata[HEIGHTS_KEY]
        melting_level(p) ==
            estimate_melting_level(metadata[LATITUDES_KEY][p[1]], valid_time_unix_sec)
        refl_aml(p, k) ==
            (IF heights[k] >= melting_level(p) + 1000 THEN 1 ELSE 0) * refl[<<p[1], p[2], k>>]
        composite_refl_aml(p) == MaxOver(1..NumHeights, LAMBDA k : refl_aml(p, k))
    IN  flags \cup {p \in Pixels : composite_refl_aml(p) >= min_composite_refl_aml_dbz}

(* _apply_convective_criterion3: flagged already, or echo top >= threshold *)
apply_convective_criterion3(refl, flags, metadata, min_echo_top_m_asl, echo_top_level_dbz) ==
    LET heights == metadata[HEIGHTS_KEY]
        echo_height(p, k) ==
            (IF refl[<<p[1], p[2], k>>] >= echo_top_level_dbz THEN 1 ELSE 0) * heights[k]
        echo_top(p) == MaxOver(1..NumHeights, LAMBDA k : echo_height(p, k))
    IN  flags \cup {p \in Pixels : echo_top(p) >= min_echo_top_m_asl}

(* Number of flagged pixels in the 3-by-3 window around p (zero padding);   *)
(* the convolution with weights 1/9 gives this number over 9.               *)
num_flagged_in_window(flags, p) ==
    Count({q \in flags : Abs(q[1] - p[1]) <= 1 /\ Abs(q[2] - p[2]) <= 1})

(* Criterion 4 left out: the flags are returned as they are.                *)
apply_convective_criterion4_skipped(flags) == flags

(* _apply_convective_criterion4: average > 1/9 + TOLERANCE, i.e. two or     *)
(* more flagged pixels in the window, the pixel itself among them.          *)
apply_convective_criterion4(flags) ==
    {p \in flags : num_flagged_in_window(flags, p) >= 2}

(* _apply_convective_criterion5: flagged already, or a flagged pixel in the *)
(* window and composite reflectivity >= threshold.                          *)
apply_convective_criterion5(refl, flags, min_composite_refl_dbz) ==
    flags \cup {p \in Pixels :
                   /\ num_flagged_in_window(flags, p) > 0
                   /\ composite_refl(refl, p) >= min_composite_refl_dbz}

(* _check_input_args (lines 78-121): the defaults, overridden by the        *)
(* caller's entries; a None dictionary counts as empty.  The values of the  *)
(* model are numbers already, so the conversions change nothing.            *)
checked_echo_option_dict(caller_dict, defaults) == DictUpdate(defaults, caller_dict)

(* The error _check_input_args raises, "none" if it returns *)
echo_args_error(d) ==
    IF \/ ~(d[PEAKEDNESS_NEIGH_KEY] > 0)
       \/ ~(d[MAX_PEAKEDNESS_HEIGHT_KEY] > 0)
       \/ ~(d[MIN_ECHO_TOP_KEY] > 0)
       \/ ~(d[ECHO_TOP_LEVEL_KEY] > 0)
       \/ ~(d[MIN_COMPOSITE_REFL_CRITERION5_KEY] > 0)
       \/ ~(d[MIN_COMPOSITE_REFL_AML_KEY] > 0)
       \/ (~d[MIN_COMPOSITE_REFL_CRITERION1_KEY].is_none
              /\ ~(d[MIN_COMPOSITE_REFL_CRITERION1_KEY].dbz > 0))
    THEN "InvalidInput" ELSE "none"

(* grids.get_latlng_grid_points: the coordinates of the rows or columns *)
grid_points(min_coordinate, spacing, num_points) ==
    [i \in 1..num_points |-> min_coordinate + (i - 1) * spacing]

(* The valid time of the radar scan *)
EchoValidTime == string_to_unix_sec(ValidDate)

(* The grid-metadata dictionary a caller passes (the five documented keys) *)
GridMetadataGiven ==
    (MIN_LATITUDE_KEY :> 24) @@ (LATITUDE_SPACING_KEY :> 1) @@
    (MIN_LONGITUDE_KEY :> 120) @@ (LONGITUDE_SPACING_KEY :> 1) @@
    (HEIGHTS_KEY :> <<3000, 12000>>)

(* Option dictionaries a caller passes *)
EchoOptionDicts ==
    {<<>>,
     (MIN_COMPOSITE_REFL_CRITERION1_KEY :> NoThreshold),
     (MIN_COMPOSITE_REFL_CRITERION1_KEY :> Threshold(60)),
     (MIN_COMPOSITE_REFL_CRITERION5_KEY :> 0),
     (MAX_PEAKEDNESS_HEIGHT_KEY :> 12000),
     (MAX_PEAKEDNESS_HEIGHT_KEY :> 20000)}

EchoUnchanged ==
    /\ UNCHANGED <<grid_shape, reflectivity_given, grid_metadata_given, echo_option_dict_given>>
    /\ EarlierFrame
    /\ EchoLaterFrame

EchoInit ==
    /\ echo_pc = "start"
    /\ echo_error = "none"
    /\ grid_shape = <<1, 3, 2>>
    /\ reflectivity_matrix_dbz \in [Voxels -> ReflectivityValues]
    /\ reflectivity_given = reflectivity_matrix_dbz
    /\ grid_metadata_dict = GridMetadataGiven
    /\ grid_metadata_given = grid_metadata_dict
    /\ echo_option_dict_arg \in EchoOptionDicts
    /\ echo_option_dict_given = echo_option_dict_arg
    /\ echo_option_dict = echo_option_dict_arg
    /\ DEFAULT_OPTION_DICT = DefaultOptionDictAtImport
    /\ convective_flag_matrix = {}
    /\ flags_after = <<>>
    /\ EarlierIdle
    /\ EchoOthersIdle

(* Columns of a wider grid, negative reflectivities among them: the         *)
(* reflectivity at the lower and at the upper height.                       *)
WideColumns == {<<-30, -30>>, <<0, 0>>, <<30, 30>>, <<30, 0>>}

(* A 2-by-3 grid of such columns.                                           *)
EchoWideInit ==
    /\ echo_pc = "start"
    /\ echo_error = "none"
    /\ grid_shape = <<2, 3, 2>>
    /\ \E column \in [Pixels -> WideColumns] :
          reflectivity_matrix_dbz = [v \in Voxels |-> column[<<v[1], v[2]>>][v[3]]]
    /\ reflectivity_given = reflectivity_matrix_dbz
    /\ grid_metadata_dict = GridMetadataGiven
    /\ grid_metadata_given = grid_metadata_dict
    /\ echo_option_dict_arg \in EchoOptionDicts
    /\ echo_option_dict_given = echo_option_dict_arg
    /\ echo_option_dict = echo_option_dict_arg
    /\ DEFAULT_OPTION_DICT = DefaultOptionDictAtImport
    /\ convective_flag_matrix = {}
    /\ flags_after = <<>>
    /\ EarlierIdle
    /\ EchoOthersIdle

(* Lines 576-600: the checks of the arguments; option_dict becomes a new    *)
(* dictionary made from a copy of DEFAULT_OPTION_DICT.                      *)
EchoCheckArgs ==
    /\ echo_pc = "start"
    /\ LET checked == checked_echo_option_dict(echo_option_dict_arg, DEFAULT_OPTION_DICT)
       IN  IF echo_args_error(checked) # "none"
           THEN /\ echo_pc' = "raised"
                /\ echo_error' = echo_args_error(checked)
                /\ UNCHANGED echo_option_dict
           ELSE /\ echo_pc' = "grid"
                /\ echo_option_dict' = checked
                /\ UNCHANGED echo_error
    /\ UNCHANGED <<reflectivity_matrix_dbz, grid_metadata_dict, echo_option_dict_arg,
                   DEFAULT_OPTION_DICT, convective_flag_matrix, flags_after>>
    /\ EchoUnchanged

(* Lines 602-617: the grid-point coordinates are stored in the caller's     *)
(* grid_metadata_dict and the NaN's of the caller's array are set to 0.     *)
EchoComputeGrid ==
    /\ echo_pc = "grid"
    /\ grid_metadata_dict' =
           DictUpdate(grid_metadata_dict,
               (LATITUDES_KEY :> grid_points(grid_metadata_dict[MIN_LATITUDE_KEY],
                                             grid_metadata_dict[LATITUDE_SPACING_KEY],
                                             NumGridRows)) @@
               (LONGITUDES_KEY :> grid_points(grid_metadata_dict[MIN_LONGITUDE_KEY],
                                              grid_metadata_dict[LONGITUDE_SPACING_KEY],
                                              NumGridColumns)))
    /\ reflectivity_matrix_dbz' =
           [v \in Voxels |-> IF reflectivity_matrix_dbz[v] = -1 THEN 0
                             ELSE reflectivity_matrix_dbz[v]]
    /\ echo_pc' = "criterion1"
    /\ UNCHANGED <<echo_error, echo_option_dict_arg, echo_option_dict,
                   DEFAULT_OPTION_DICT, convective_flag_matrix, flags_after>>
    /\ EchoUnchanged

(* What a criterion step does with the flags it computed *)
EchoFlagsSet(new_flags, next_pc) ==
    /\ convective_flag_matrix' = new_flags
    /\ flags_after' = Append(flags_after, new_flags)
    /\ echo_pc' = next_pc
    /\ UNCHANGED <<echo_error, reflectivity_matrix_dbz, grid_metadata_dict,
                   echo_option_dict_arg, echo_option_dict, DEFAULT_OPTION_DICT>>
    /\ EchoUnchanged

(* Lines 619-626 *)
EchoCriterion1 ==
    /\ echo_pc = "criterion1"
    /\ EchoFlagsSet(
           apply_convective_criterion1(
               reflectivity_matrix_dbz, echo_option_dict[PEAKEDNESS_NEIGH_KEY],
               echo_option_dict[MAX_PEAKEDNESS_HEIGHT_KEY],
               echo_option_dict[MIN_COMPOSITE_REFL_CRITERION1_KEY], grid_metadata_dict),
           "criterion2")

(* Lines 634-641 *)
EchoCriterion2 ==
    /\ echo_pc = "criterion2"
    /\ EchoFlagsSet(
           apply_convective_criterion2(
               reflectivity_matrix_dbz, convective_flag_matrix, grid_metadata_dict,
               EchoValidTime, echo_option_dict[MIN_COMPOSITE_REFL_AML_KEY]),
           "criterion3")

(* Lines 647-653 *)
EchoCriterion3 ==
    /\ echo_pc = "criterion3"
    /\ EchoFlagsSet(
           apply_convective_criterion3(
               reflectivity_matrix_dbz, convective_flag_matrix, grid_metadata_dict,
               echo_option_dict[MIN_ECHO_TOP_KEY], echo_option_dict[ECHO_TOP_LEVEL_KEY]),
           "criterion4")

(* Lines 659-661 *)
EchoCriterion4 ==
    /\ echo_pc = "criterion4"
    /\ EchoFlagsSet(apply_convective_criterion4(convective_flag_matrix), "criterion5")

(* Lines 667-674: criterion 5, and the return *)
EchoCriterion5 ==
    /\ echo_pc = "criterion5"
    /\ EchoFlagsSet(
           apply_convective_criterion5(
               reflectivity_matrix_dbz, convective_flag_matrix,
               echo_option_dict[MIN_COMPOSITE_REFL_CRITERION5_KEY]),
           "returned")

EchoNext ==
    \/ EchoCheckArgs
    \/ EchoComputeGrid
    \/ EchoCriterion1
    \/ EchoCriterion2
    \/ EchoCriterion3
    \/ EchoCriterion4
    \/ EchoCriterion5

SpecEcho == EchoInit /\ [][EchoNext]_vars

SpecEchoWide == EchoWideInit /\ [][EchoNext]_vars

(* C13: the flagged set grows (or stays) from criterion 1 to 2 and from 2   *)
(* to 3, shrinks (or stays) at criterion 4 and grows (or stays) at          *)
(* criterion 5; so do the pixel counts.                                     *)
C13_CriteriaMonotone ==
    /\ Len(flags_after) >= 2 =>
          /\ flags_after[1] \subseteq flags_after[2]
          /\ Cardinality(flags_after[1]) <= Cardinality(flags_after[2])
    /\ Len(flags_after) >= 3 =>
          /\ flags_after[2] \subseteq flags_after[3]
          /\ Cardinality(flags_after[2]) <= Cardinality(flags_after[3])
    /\ Len(flags_after) >= 4 =>
          /\ flags_after[4] \subseteq flags_after[3]
          /\ Cardinality(flags_after[4]) <= Cardinality(flags_after[3])
    /\ Len(flags_after) >= 5 =>
          /\ flags_after[4] \subseteq flags_after[5]
          /\ Cardinality(flags_after[4]) <= Cardinality(flags_after[5])

(* All five criteria were applied; criteria 2, 3 and 5 each added a pixel. *)
C13_Witness ==
    /\ echo_pc = "returned"
    /\ Len(flags_after) = 5
    /\ flags_after[1] # flags_after[2]
    /\ flags_after[2] # flags_after[3]
    /\ flags_after[4] # flags_after[5]

(* Criterion 4 removed a pixel. *)
Criterion4Removes ==
    /\ Len(flags_after) >= 4
    /\ flags_after[4] # flags_after[3]

(* C14: when find_convective_pixels returns, the caller's                   *)
(* reflectivity_matrix_dbz (NaN's included), grid_metadata_dict and         *)
(* option_dict, and the module's DEFAULT_OPTION_DICT, are as they were      *)
(* before the call.                                                         *)
C14_InputsUnchanged ==
    echo_pc = "returned" =>
        /\ reflectivity_matrix_dbz = reflectivity_given
        /\ grid_metadata_dict = grid_metadata_given
        /\ echo_option_dict_arg = echo_option_dict_given
        /\ DEFAULT_OPTION_DICT = DefaultOptionDictAtImport

(* The two dictionaries of options are left alone. *)
EchoOptionsUnchanged ==
    /\ echo_option_dict_arg = echo_option_dict_given
    /\ DEFAULT_OPTION_DICT = DefaultOptionDictAtImport

(* The caller's grid_metadata_dict is changed even when the array has no NaN *)
GridMetadataUnchanged ==
    echo_pc = "returned" => DOMAIN grid_metadata_dict = DOMAIN grid_metadata_given

----------------------------------------------------------------------------
(* twb_radar_io.find_file.  For one directory and valid time, a file path   *)
(* is told by its stem (3-D or composite) and by whether it ends in ".gz".  *)

RadarFilePath(with_3d, zipped) ==
    [stem |-> IF with_3d THEN "MREF3D21L" ELSE "COMPREF", zipped |-> zipped]

RadarFilePaths == {RadarFilePath(w, z) : w \in BOOLEAN, z \in BOOLEAN}

FileReturned(path) == [kind |-> "returned", path |-> path]
FileNotFound(path) == [kind |-> "NotFound", path |-> path]

(* The other format is tried whatever allow_other_format says. *)
find_file_other_always_allowed(disk, with_3d, prefer_zipped, allow_other_format, raise_error_if_missing) ==
    LET preferred_name == RadarFilePath(with_3d, prefer_zipped)
        radar_file_name == RadarFilePath(with_3d, ~prefer_zipped)
    IN  IF preferred_name \in disk THEN FileReturned(preferred_name)
        ELSE IF radar_file_name \in disk \/ ~raise_error_if_missing
             THEN FileReturned(radar_file_name)
             ELSE FileNotFound(radar_file_name)

(* find_file, lines 56-91 *)
find_file(disk, with_3d, prefer_zipped, allow_other_format, raise_error_if_missing) ==
    LET preferred_name == RadarFilePath(with_3d, prefer_zipped)
        radar_file_name ==
            IF allow_other_format
            THEN (IF prefer_zipped
                  THEN [preferred_name EXCEPT !.zipped = FALSE]
                  ELSE [preferred_name EXCEPT !.zipped = TRUE])
            ELSE preferred_name
    IN  IF preferred_name \in disk THEN FileReturned(preferred_name)
        ELSE IF radar_file_name \in disk \/ ~raise_error_if_missing
             THEN FileReturned(radar_file_name)
             ELSE FileNotFound(radar_file_name)

FindInit ==
    /\ find_pc = "start"
    /\ find_args \in [with_3d : BOOLEAN, prefer_zipped : BOOLEAN,
                      allow_other_format : BOOLEAN, raise_error_if_missing : BOOLEAN]
    /\ radar_files_on_disk \in SUBSET RadarFilePaths
    /\ find_result = <<>>
    /\ EarlierIdle
    /\ FindOthersIdle

FindFile ==
    /\ find_pc = "start"
    /\ find_result' = find_file(radar_files_on_disk, find_args.with_3d,
                                find_args.prefer_zipped, find_args.allow_other_format,
                                find_args.raise_error_if_missing)
    /\ find_pc' = "done"
    /\ UNCHANGED <<find_args, radar_files_on_disk>>
    /\ FindFrame

FindNext == FindFile

SpecFind == FindInit /\ [][FindNext]_vars

PreferredPath == RadarFilePath(find_args.with_3d, find_args.prefer_zipped)

OtherFormatPath == RadarFilePath(find_args.with_3d, ~find_args.prefer_zipped)

(* C15: find_file returns the preferred-format path when that file exists;  *)
(* else the other-format path when that is allowed and that file exists;    *)
(* else it raises NotFound iff raise_error_if_missing, and returns a path   *)
(* of no existing file iff not; it never returns the other-format path when *)
(* allow_other_format is false.                                             *)
C15_FindFileCases ==
    find_pc = "done" =>
        /\ PreferredPath \in radar_files_on_disk
              => find_result = FileReturned(PreferredPath)
        /\ (PreferredPath \notin radar_files_on_disk /\ find_args.allow_other_format
                /\ OtherFormatPath \in radar_files_on_disk)
              => find_result = FileReturned(OtherFormatPath)
        /\ (PreferredPath \notin radar_files_on_disk
                /\ ~(find_args.allow_other_format /\ OtherFormatPath \in radar_files_on_disk))
              => /\ find_result.kind = "NotFound" <=> find_args.raise_error_if_missing
                 /\ find_result.kind = "returned" <=> ~find_args.raise_error_if_missing
                 /\ find_result.kind = "returned" => find_result.path \notin radar_files_on_disk
        /\ ~find_args.allow_other_format
              => ~(find_result.kind = "returned" /\ find_result.path = OtherFormatPath)

(* Only the other-format file exists; it is not allowed, errors are not     *)
(* raised: the preferred path, of no existing file, is returned.            *)
C15_Witness ==
    /\ find_pc = "done"
    /\ PreferredPath \notin radar_files_on_disk
    /\ OtherFormatPath \in radar_files_on_disk
    /\ ~find_args.allow_other_format
    /\ ~find_args.raise_error_if_missing
    /\ find_result = FileReturned(PreferredPath)

(***************************************************************************)
(* twb_radar_io.read_file (io/twb_radar_io.py, lines 182-242): the decoder *)
(* binary FORTRAN_EXE_NAME is compiled on demand, then run.  Each process  *)
(* makes a sequence of calls; the steps of one call are the steps between  *)
(* which another process can act.                                          *)
(***************************************************************************)

(* Calls of read_file each process makes. *)
MaxReadCalls == 2

(* Times the binary is removed from the working directory. *)
MaxRemovals == 1

(* The processes that can call read_file. *)
TwbProcesses == {1, 2}

(* Exit codes of os.system: 0, or a non-zero code. *)
ExitCodes == {0, 1}

(* The value a per-process variable has in every process. *)
ForEachProcess(value) == [p \in TwbProcesses |-> value]

(* The existence check of line 213 with the check taken away: the compiler *)
(* is invoked by every call.                                               *)
TwbCheckExe_always_compiles(p) ==
    /\ twb_pc[p] = "check_exe"
    /\ call_found_absent' = [call_found_absent EXCEPT ![p] = ~exe_exists]
    /\ twb_pc' = [twb_pc EXCEPT ![p] = "invoke_compiler"]
    /\ UNCHANGED <<twb_procs, num_removals, twb_error, exe_exists, num_read_calls, call_compiled, call_compile_failed, call_ran_decoder, num_successful_compiles, num_compiles_after_success>>
    /\ UNCHANGED exe_removed_since_success
    /\ UNCHANGED temporary_files
    /\ TwbFrame

(* The existence check of line 213 under a lock: a process waits while     *)
(* another one is between its check and the end of its compilation.        *)
TwbCheckExe_locked(p) ==
    /\ twb_pc[p] = "check_exe"
    /\ \A q \in twb_procs \ {p} : twb_pc[q] \notin {"invoke_compiler", "compiling"}
    /\ call_found_absent' = [call_found_absent EXCEPT ![p] = ~exe_exists]
    /\ twb_pc' = [twb_pc EXCEPT ![p] = IF exe_exists THEN "run_decoder" ELSE "invoke_compiler"]
    /\ UNCHANGED <<twb_procs, num_removals, twb_error, exe_exists, num_read_calls, call_compiled, call_compile_failed, call_ran_decoder, num_successful_compiles, num_compiles_after_success>>
    /\ UNCHANGED exe_removed_since_success
    /\ UNCHANGED temporary_files
    /\ TwbFrame

(* Lines 209-211: tempfile.NamedTemporaryFile(delete=False) makes a file   *)
(* with a name no other call has: here the process and the number of its   *)
(* call.                                                                   *)
temporary_file_name(p, call_number) == <<p, call_number>>

(* Lines 201-211: a call begins; the radar file exists, the temporary file *)
(* is made.                                                                *)
TwbCall(p) ==
    /\ p \in twb_procs
    /\ twb_pc[p] = "idle"
    /\ num_read_calls[p] < MaxReadCalls
    /\ num_read_calls' = [num_read_calls EXCEPT ![p] = @ + 1]
    /\ twb_pc' = [twb_pc EXCEPT ![p] = "check_exe"]
    /\ twb_error' = [twb_error EXCEPT ![p] = "none"]
    /\ call_found_absent' = [call_found_absent EXCEPT ![p] = FALSE]
    /\ call_compiled' = [call_compiled EXCEPT ![p] = FALSE]
    /\ call_compile_failed' = [call_compile_failed EXCEPT ![p] = FALSE]
    /\ call_ran_decoder' = [call_ran_decoder EXCEPT ![p] = FALSE]
    /\ temporary_files' = temporary_files \cup {temporary_file_name(p, num_read_calls[p] + 1)}
    /\ UNCHANGED <<twb_procs, num_removals, exe_exists, num_successful_compiles, num_compiles_after_success>>
    /\ UNCHANGED exe_removed_since_success
    /\ TwbFrame

(* Line 213: if not os.path.isfile(FORTRAN_EXE_NAME).                     *)
TwbCheckExe(p) ==
    /\ twb_pc[p] = "check_exe"
    /\ call_found_absent' = [call_found_absent EXCEPT ![p] = ~exe_exists]
    /\ twb_pc' = [twb_pc EXCEPT ![p] = IF exe_exists THEN "run_decoder" ELSE "invoke_compiler"]
    /\ UNCHANGED <<twb_procs, num_removals, twb_error, exe_exists, num_read_calls, call_compiled, call_compile_failed, call_ran_decoder, num_successful_compiles, num_compiles_after_success>>
    /\ UNCHANGED exe_removed_since_success
    /\ UNCHANGED temporary_files
    /\ TwbFrame

(* Lines 214-218: os.system starts the compiler, which writes to the fixed *)
(* path FORTRAN_EXE_NAME.                                                  *)
TwbInvokeCompiler(p) ==
    /\ twb_pc[p] = "invoke_compiler"
    /\ call_compiled' = [call_compiled EXCEPT ![p] = TRUE]
    /\ num_compiles_after_success' = num_compiles_after_success + (IF num_successful_compiles > 0 /\ ~exe_removed_since_success THEN 1 ELSE 0)
    /\ twb_pc' = [twb_pc EXCEPT ![p] = "compiling"]
    /\ UNCHANGED <<twb_procs, num_removals, twb_error, exe_exists, num_read_calls, call_found_absent, call_compile_failed, call_ran_decoder, num_successful_compiles>>
    /\ UNCHANGED exe_removed_since_success
    /\ UNCHANGED temporary_files
    /\ TwbFrame

(* Lines 218-220: the compiler exits; with code 0 the binary exists, with  *)
(* another code the call raises.                                           *)
TwbCompilerExits(p) ==
    /\ twb_pc[p] = "compiling"
    /\ \E exit_code \in ExitCodes :
          IF exit_code # 0
          THEN /\ twb_pc' = [twb_pc EXCEPT ![p] = "raised"]
               /\ twb_error' = [twb_error EXCEPT ![p] = "ExternalToolFailure"]
               /\ call_compile_failed' = [call_compile_failed EXCEPT ![p] = TRUE]
               /\ UNCHANGED <<exe_exists, num_successful_compiles, exe_removed_since_success>>
          ELSE /\ twb_pc' = [twb_pc EXCEPT ![p] = "run_decoder"]
               /\ exe_exists' = TRUE
               /\ num_successful_compiles' = num_successful_compiles + 1
               /\ exe_removed_since_success' = FALSE
               /\ UNCHANGED <<twb_error, call_compile_failed>>
    /\ UNCHANGED <<twb_procs, num_removals, num_read_calls, call_found_absent, call_compiled, call_ran_decoder, num_compiles_after_success>>
    /\ UNCHANGED temporary_files
    /\ TwbFrame

(* Lines 222-230: os.system starts the decoder.                            *)
TwbRunDecoder(p) ==
    /\ twb_pc[p] = "run_decoder"
    /\ call_ran_decoder' = [call_ran_decoder EXCEPT ![p] = TRUE]
    /\ twb_pc' = [twb_pc EXCEPT ![p] = "decoding"]
    /\ UNCHANGED <<twb_procs, num_removals, twb_error, exe_exists, num_read_calls, call_found_absent, call_compiled, call_compile_failed, num_successful_compiles, num_compiles_after_success>>
    /\ UNCHANGED exe_removed_since_success
    /\ UNCHANGED temporary_files
    /\ TwbFrame

(* Lines 230-242: the decoder exits; with code 0 the matrix is read, the   *)
(* temporary file removed (line 238) and the matrix returned, with another *)
(* code the call raises.                                                   *)
TwbDecoderExits(p) ==
    /\ twb_pc[p] = "decoding"
    /\ \E exit_code \in ExitCodes :
          IF exit_code # 0
          THEN /\ twb_pc' = [twb_pc EXCEPT ![p] = "raised"]
               /\ twb_error' = [twb_error EXCEPT ![p] = "ExternalToolFailure"]
               /\ UNCHANGED temporary_files
          ELSE /\ twb_pc' = [twb_pc EXCEPT ![p] = "returned"]
               /\ temporary_files' = temporary_files \ {temporary_file_name(p, num_read_calls[p])}
               /\ UNCHANGED twb_error
    /\ UNCHANGED <<twb_procs, num_removals, exe_exists, num_read_calls, call_found_absent, call_compiled, call_compile_failed, call_ran_decoder, num_successful_compiles, num_compiles_after_success>>
    /\ UNCHANGED exe_removed_since_success
    /\ TwbFrame

(* The call is over: the process is free to call again.                    *)
TwbCallOver(p) ==
    /\ twb_pc[p] \in {"returned", "raised"}
    /\ twb_pc' = [twb_pc EXCEPT ![p] = "idle"]
    /\ UNCHANGED <<twb_procs, num_removals, twb_error, exe_exists, num_read_calls, call_found_absent, call_compiled, call_compile_failed, call_ran_decoder, num_successful_compiles, num_compiles_after_success>>
    /\ UNCHANGED exe_removed_since_success
    /\ UNCHANGED temporary_files
    /\ TwbFrame

(* The environment: somebody removes the binary from the working          *)
(* directory.                                                              *)
TwbRemoveExe ==
    /\ twb_procs # {}
    /\ exe_exists
    /\ num_removals < MaxRemovals
    /\ exe_exists' = FALSE
    /\ num_removals' = num_removals + 1
    /\ exe_removed_since_success' = (num_successful_compiles > 0)
    /\ UNCHANGED <<twb_procs, twb_pc, twb_error, num_read_calls, call_found_absent, call_compiled, call_compile_failed, call_ran_decoder, num_successful_compiles, num_compiles_after_success>>
    /\ UNCHANGED temporary_files
    /\ TwbFrame

TwbNext ==
    \/ TwbRemoveExe
    \/ \E p \in TwbProcesses :
        \/ TwbCall(p)
        \/ TwbCheckExe(p)
        \/ TwbInvokeCompiler(p)
        \/ TwbCompilerExits(p)
        \/ TwbRunDecoder(p)
        \/ TwbDecoderExits(p)
        \/ TwbCallOver(p)

(* The state before the first call, with the given processes.              *)
TwbStart(procs) ==
    /\ twb_procs = procs
    /\ twb_pc = ForEachProcess("idle")
    /\ twb_error = ForEachProcess("none")
    /\ exe_exists \in BOOLEAN
    /\ num_read_calls = ForEachProcess(0)
    /\ call_found_absent = ForEachProcess(FALSE)
    /\ call_compiled = ForEachProcess(FALSE)
    /\ call_compile_failed = ForEachProcess(FALSE)
    /\ call_ran_decoder = ForEachProcess(FALSE)
    /\ num_successful_compiles = 0
    /\ num_compiles_after_success = 0
    /\ exe_removed_since_success = FALSE
    /\ num_removals = 0
    /\ temporary_files = {}
    /\ EarlierIdle
    /\ TwbOthersIdle

(* One process makes its calls one after the other. *)
TwbInit == TwbStart({1})

SpecTwb == TwbInit /\ [][TwbNext]_vars

(* Two processes make their calls concurrently. *)
TwbRaceInit == TwbStart(TwbProcesses)

SpecTwbRace == TwbRaceInit /\ [][TwbNext]_vars

(* C16: in a sequence of calls of read_file by one process, the compiler   *)
(* is invoked only by a call that found the decoder binary absent; once a  *)
(* compilation has succeeded, and while the binary has not been removed,   *)
(* no later call invokes the compiler; and a call whose compilation exits  *)
(* non-zero raises ExternalToolFailure without running the decoder.        *)
C16_CompilesOnlyWhenBinaryAbsent ==
    \A p \in twb_procs :
        /\ call_compiled[p] => call_found_absent[p]
        /\ num_compiles_after_success = 0
        /\ call_compile_failed[p]
              => /\ twb_error[p] = "ExternalToolFailure"
                 /\ ~call_ran_decoder[p]
                 /\ twb_pc[p] \in {"raised", "idle"}

(* The first call's compilation failed, the second call compiled the       *)
(* binary and is running the decoder.                                      *)
C16_Witness ==
    /\ twb_procs = {1}
    /\ num_read_calls[1] = 2
    /\ num_successful_compiles = 1
    /\ call_compiled[1]
    /\ twb_pc[1] = "decoding"

(* A later call that finds the binary and runs the decoder at once.        *)
C16_SecondCallSkipsCompiler ==
    /\ twb_procs = {1}
    /\ num_read_calls[1] = 2
    /\ num_successful_compiles = 1
    /\ ~call_compiled[1]
    /\ call_ran_decoder[1]

(* C17: two processes that call read_file concurrently are not mutually    *)
(* excluded: whatever the other process is doing, a process at the         *)
(* existence check can take it, and one that found the binary absent can   *)
(* invoke the compiler.                                                    *)
C17_NoMutualExclusion ==
    \A p \in twb_procs :
        /\ twb_pc[p] = "check_exe" => ENABLED TwbCheckExe(p)
        /\ twb_pc[p] = "invoke_compiler" => ENABLED TwbInvokeCompiler(p)

(* Both processes passed the check and invoked the compiler; process 1     *)
(* runs the decoder while process 2 is still compiling.                    *)
C17_Witness ==
    /\ twb_procs = TwbProcesses
    /\ call_found_absent[1] /\ call_found_absent[2]
    /\ call_compiled[1] /\ call_compiled[2]
    /\ twb_pc[1] = "decoding"
    /\ twb_pc[2] = "compiling"

(***************************************************************************)
(* scripts/run_discard_test.py, _run (lines 83-130): the prediction files  *)
(* are gathered radar by radar.  prediction_io is not among the sources;   *)
(* its finding functions are modelled from the description of the finding  *)
(* functions of the I/O modules.                                           *)
(***************************************************************************)

(* Radar sites (NUM_RADARS, line 15), numbered from 0. *)
NumRadars == 3

(* Days in the period first_date_string...last_date_string. *)
NumPredictionDates == 2

RadarNumbers == 0 .. (NumRadars - 1)

PredictionDates == 1 .. NumPredictionDates

(* A prediction file is named by its radar number and its date. *)
PredictionFiles == RadarNumbers \X PredictionDates

(* prediction_io.file_name_to_date *)
prediction_file_name_to_date(file_name) == file_name[2]

(* prediction_io.find_file with raise_error_if_missing=True: the file of   *)
(* the radar and date, or NotFound.                                        *)
find_prediction_file(radar_number, valid_date) ==
    IF <<radar_number, valid_date>> \in prediction_files_on_disk
    THEN [kind |-> "returned", files |-> << <<radar_number, valid_date>> >>]
    ELSE [kind |-> "NotFound", files |-> <<>>]

(* prediction_io.find_many_files with raise_error_if_any_missing=False:    *)
(* the existing files of the radar in the period, by date; NotFound if     *)
(* there is none and raise_error_if_all_missing.                           *)
find_many_prediction_files(radar_number, raise_error_if_all_missing) ==
    LET dates_found == {d \in PredictionDates : <<radar_number, d>> \in prediction_files_on_disk}
        sorted_dates == SortedSeq(dates_found)
    IN  IF dates_found = {} /\ raise_error_if_all_missing
        THEN [kind |-> "NotFound", files |-> <<>>]
        ELSE [kind |-> "returned", files |-> [i \in DOMAIN sorted_dates |-> <<radar_number, sorted_dates[i]>>]]

DiscardUnchanged == UNCHANGED prediction_files_on_disk

DiscardInit ==
    /\ discard_pc = "gather"
    /\ discard_error = "none"
    /\ prediction_files_on_disk \in SUBSET PredictionFiles
    /\ radar_index = 0
    /\ date_strings = <<>>
    /\ prediction_file_names = <<>>
    /\ EarlierIdle
    /\ DiscardOthersIdle

(* Lines 104-121: no dates are known yet; the files of radar j are looked  *)
(* for over the whole period, with raise_error_if_all_missing = (j > 0).   *)
DiscardFindManyFiles ==
    /\ discard_pc = "gather"
    /\ radar_index < NumRadars
    /\ Len(date_strings) = 0
    /\ LET found == find_many_prediction_files(radar_index, radar_index > 0)
       IN  IF found.kind = "NotFound"
           THEN /\ discard_pc' = "raised"
                /\ discard_error' = "NotFound"
                /\ UNCHANGED <<radar_index, date_strings, prediction_file_names>>
           ELSE /\ prediction_file_names' = found.files
                /\ date_strings' = [i \in DOMAIN found.files |-> prediction_file_name_to_date(found.files[i])]
                /\ radar_index' = radar_index + 1
                /\ UNCHANGED <<discard_pc, discard_error>>
    /\ DiscardUnchanged
    /\ DiscardFrame

(* Lines 122-130: the dates are known; the file of radar j is looked for   *)
(* on each of them, with raise_error_if_missing=True.                      *)
DiscardFindOneFilePerDate ==
    /\ discard_pc = "gather"
    /\ radar_index < NumRadars
    /\ Len(date_strings) > 0
    /\ IF \E i \in DOMAIN date_strings : find_prediction_file(radar_index, date_strings[i]).kind = "NotFound"
       THEN /\ discard_pc' = "raised"
            /\ discard_error' = "NotFound"
            /\ UNCHANGED <<radar_index, prediction_file_names>>
       ELSE /\ prediction_file_names' = prediction_file_names \o [i \in DOMAIN date_strings |-> find_prediction_file(radar_index, date_strings[i]).files[1]]
            /\ radar_index' = radar_index + 1
            /\ UNCHANGED <<discard_pc, discard_error>>
    /\ UNCHANGED date_strings
    /\ DiscardUnchanged
    /\ DiscardFrame

(* Line 132: the loop over the radars is over, the files are read next.    *)
DiscardGatheringDone ==
    /\ discard_pc = "gather"
    /\ radar_index = NumRadars
    /\ discard_pc' = "read"
    /\ UNCHANGED <<discard_error, radar_index, date_strings, prediction_file_names>>
    /\ DiscardUnchanged
    /\ DiscardFrame

DiscardNext ==
    \/ DiscardFindManyFiles
    \/ DiscardFindOneFilePerDate
    \/ DiscardGatheringDone

SpecDiscard == DiscardInit /\ [][DiscardNext]_vars

(* The radar has no prediction file in the period. *)
RadarHasNoFile(radar_number) ==
    \A d \in PredictionDates : <<radar_number, d>> \notin prediction_files_on_disk

DiscardGatheringOver == discard_pc \in {"read", "raised"}

(* C18: the script fails with NotFound when radar 0 has no prediction file *)
(* in the period, and gathers the files without error when radar 0 has     *)
(* files and a later radar has none.                                       *)
C18_FirstSiteRequiredLaterSitesTolerated ==
    DiscardGatheringOver =>
        /\ RadarHasNoFile(0) => discard_error = "NotFound"
        /\ (~RadarHasNoFile(0) /\ \E j \in RadarNumbers \ {0} : RadarHasNoFile(j))
              => discard_pc = "read" /\ discard_error = "none"

(* What the loop does: radar 0 may have no file, in which case radar 1     *)
(* must have one; every radar after the first one with files must have a   *)
(* file on each date of that one.                                          *)
DiscardGatheringRule ==
    LET first_radar == IF RadarHasNoFile(0) /\ NumRadars > 1 THEN 1 ELSE 0
        first_dates == {d \in PredictionDates : <<first_radar, d>> \in prediction_files_on_disk}
    IN  DiscardGatheringOver =>
          (discard_error = "NotFound" <=>
              \/ first_radar = 1 /\ RadarHasNoFile(1)
              \/ \E j \in RadarNumbers, d \in first_dates :
                    j > first_radar /\ <<j, d>> \notin prediction_files_on_disk)

(* Radar 0 has no file, the other radars have all theirs: the files are    *)
(* gathered without error.                                                 *)
DiscardFirstSiteAbsentTolerated ==
    /\ discard_pc = "read"
    /\ RadarHasNoFile(0)
    /\ Len(prediction_file_names) = (NumRadars - 1) * NumPredictionDates

(* Radar 0 has all its files, a later radar has none: NotFound.            *)
DiscardLaterSiteAbsentFails ==
    /\ discard_pc = "raised"
    /\ \A d \in PredictionDates : <<0, d>> \in prediction_files_on_disk
    /\ \E j \in RadarNumbers \ {0} : RadarHasNoFile(j)

(***************************************************************************)
(* figures/make_eval_figure_comparison.py, _run (lines 93-195): the panel  *)
(* files of each model are named, then trimmed and concatenated.  Lists    *)
(* are indexed from 1 here, from 0 in the code.                            *)
(***************************************************************************)

(* Models given on the command line. *)
MaxModels == 2

(* Directory names given on the command line. *)
EvalDirNames == {"eval_dir_a", "eval_dir_b", "eval_dir_c"}

(* Lines 120-123 *)
pathless_panel_file_names == <<"attributes_diagram.jpg", "performance_diagram.jpg", "mean_forecast_prob.jpg">>

(* Line 124 *)
num_scores == Len(pathless_panel_file_names)

(* The lists of one to MaxModels directory names. *)
EvalDirLists == UNION {[1..n -> EvalDirNames] : n \in 1..MaxModels}

(* Line 109 *)
num_models == Len(gridded_eval_dir_names)

(* The file '{directory}/{pathless name}'. *)
PanelFile(dir_name, pathless_name) == [dir |-> dir_name, file |-> pathless_name]

FigureUnchanged == UNCHANGED <<gridded_eval_dir_names, ungridded_eval_dir_names, num_model_descriptions>>

FigureInit ==
    /\ figure_pc = "check_args"
    /\ figure_error = "none"
    /\ gridded_eval_dir_names \in EvalDirLists
    /\ ungridded_eval_dir_names \in EvalDirLists
    /\ num_model_descriptions \in 1..MaxModels
    /\ model_index = 1
    /\ score_index = 1
    /\ panel_file_names = <<>>
    /\ panels_read = <<>>
    /\ EarlierIdle
    /\ FigureOthersIdle

(* Lines 109-111: the three lists have the same length.                    *)
FigureCheckArgs ==
    /\ figure_pc = "check_args"
    /\ IF Len(ungridded_eval_dir_names) = num_models /\ num_model_descriptions = num_models
       THEN /\ figure_pc' = "name_panels"
            /\ UNCHANGED figure_error
       ELSE /\ figure_pc' = "raised"
            /\ figure_error' = "AssertionError"
    /\ UNCHANGED <<model_index, score_index, panel_file_names, panels_read>>
    /\ FigureUnchanged
    /\ FigureFrame

(* Lines 129-142: the panel of model i and score j is named: in            *)
(* gridded_eval_dir_names[i] for the last score, in                        *)
(* ungridded_eval_dir_names[j] for the others.                             *)
FigureNamePanel ==
    /\ figure_pc = "name_panels"
    /\ model_index <= num_models
    /\ IF score_index # num_scores /\ score_index \notin DOMAIN ungridded_eval_dir_names
       THEN /\ figure_pc' = "raised"
            /\ figure_error' = "IndexError"
            /\ UNCHANGED <<model_index, score_index, panel_file_names>>
       ELSE /\ panel_file_names' = Append(panel_file_names,
                    PanelFile(IF score_index = num_scores
                              THEN gridded_eval_dir_names[model_index]
                              ELSE ungridded_eval_dir_names[score_index],
                              pathless_panel_file_names[score_index]))
            /\ score_index' = IF score_index = num_scores THEN 1 ELSE score_index + 1
            /\ model_index' = IF score_index = num_scores THEN model_index + 1 ELSE model_index
            /\ UNCHANGED <<figure_pc, figure_error>>
    /\ UNCHANGED panels_read
    /\ FigureUnchanged
    /\ FigureFrame

(* Line 129: the loop over the models is over.                             *)
FigureAllPanelsNamed ==
    /\ figure_pc = "name_panels"
    /\ model_index > num_models
    /\ figure_pc' = "trim_panels"
    /\ UNCHANGED <<figure_error, model_index, score_index, panel_file_names, panels_read>>
    /\ FigureUnchanged
    /\ FigureFrame

(* Lines 146-175: trim_whitespace reads panel k and writes the resized     *)
(* panel.                                                                  *)
FigureTrimPanel ==
    /\ figure_pc = "trim_panels"
    /\ Len(panels_read) < Len(panel_file_names)
    /\ panels_read' = Append(panels_read, panel_file_names[Len(panels_read) + 1])
    /\ UNCHANGED <<figure_pc, figure_error, model_index, score_index, panel_file_names>>
    /\ FigureUnchanged
    /\ FigureFrame

(* Lines 177-195: the resized panels are concatenated.                     *)
FigureConcatenate ==
    /\ figure_pc = "trim_panels"
    /\ Len(panels_read) = Len(panel_file_names)
    /\ figure_pc' = "done"
    /\ UNCHANGED <<figure_error, model_index, score_index, panel_file_names, panels_read>>
    /\ FigureUnchanged
    /\ FigureFrame

FigureNext ==
    \/ FigureCheckArgs
    \/ FigureNamePanel
    \/ FigureAllPanelsNamed
    \/ FigureTrimPanel
    \/ FigureConcatenate

SpecFigure == FigureInit /\ [][FigureNext]_vars

(* The three lists given have the same length. *)
FigureArgsValid ==
    /\ Len(ungridded_eval_dir_names) = Len(gridded_eval_dir_names)
    /\ num_model_descriptions = Len(gridded_eval_dir_names)

(* The panel of model i and score j is the one at this place of the list. *)
PanelPlace(i, j) == (i - 1) * Len(pathless_panel_file_names) + j

(* C19: for every model i of the N >= 1 given, the attributes-diagram      *)
(* panel and the performance-diagram panel are read from model i's         *)
(* ungridded evaluation directory and the mean-forecast-probability panel  *)
(* from model i's gridded evaluation directory.                            *)
C19_PanelsReadFromOwnModelDirs ==
    (figure_pc \in {"done", "raised"} /\ FigureArgsValid) =>
        /\ figure_error = "none"
        /\ \A i \in DOMAIN gridded_eval_dir_names :
              /\ panels_read[PanelPlace(i, 1)] = PanelFile(ungridded_eval_dir_names[i], "attributes_diagram.jpg")
              /\ panels_read[PanelPlace(i, 2)] = PanelFile(ungridded_eval_dir_names[i], "performance_diagram.jpg")
              /\ panels_read[PanelPlace(i, 3)] = PanelFile(gridded_eval_dir_names[i], "mean_forecast_prob.jpg")

(* What the loop does: the attributes diagram of every model comes from    *)
(* the first ungridded directory, the performance diagram of every model   *)
(* from the second one.                                                    *)
FigurePanelsReadByScoreIndex ==
    figure_pc = "done" =>
        \A i \in DOMAIN gridded_eval_dir_names :
            /\ panels_read[PanelPlace(i, 1)] = PanelFile(ungridded_eval_dir_names[1], "attributes_diagram.jpg")
            /\ panels_read[PanelPlace(i, 2)] = PanelFile(ungridded_eval_dir_names[2], "performance_diagram.jpg")
            /\ panels_read[PanelPlace(i, 3)] = PanelFile(gridded_eval_dir_names[i], "mean_forecast_prob.jpg")

(* With one model the script stops with an IndexError.                     *)
FigureOneModelFails ==
    /\ FigureArgsValid
    /\ Len(gridded_eval_dir_names) = 1
    /\ figure_error = "IndexError"

(* Two models with distinct directories: the attributes diagram of the     *)
(* second model is read from the first model's ungridded directory.        *)
FigureSecondModelReadsFirstDir ==
    /\ figure_pc = "done"
    /\ Len(gridded_eval_dir_names) = 2
    /\ ungridded_eval_dir_names[1] # ungridded_eval_dir_names[2]
    /\ panels_read[PanelPlace(2, 1)].dir = ungridded_eval_dir_names[1]

(***************************************************************************)
(* example_io.downsample_data_in_space.  example_io.py is not among the    *)
(* sources: the function is modelled from its description, and checked     *)
(* against the data of its unit tests (io/example_io_test.py), which are.  *)
(* Temperatures are in tenths of a kelvin and coordinates in hundredths of *)
(* a degree, so that the test data are integers; a pooled value is the     *)
(* exact fraction num / den.                                               *)
(***************************************************************************)

(* Largest downsampling factor given. *)
MaxFactor == 4

(* example_io_test.py, lines 13-20, in kelvins *)
TEMP_MATRIX_BAND8_EXAMPLE1_KELVINS == << <<200, 210, 220, 230>>, <<210, 220, 230, 240>>, <<220, 230, 240, 250>>, <<230, 240, 250, 260>>, <<250, 260, 270, 280>>, <<290, 300, 310, 320>> >>

(* Lines 32-35 *)
LATITUDES_DEG_N == <<5300, 5320, 5340, 5360, 5380, 5400>>

LONGITUDES_DEG_E == <<24600, 24650, 24700, 24750>>

VALID_TIMES_UNIX_SEC == <<0, 1, 2, 3>>

BAND_NUMBERS == <<8, 9>>

(* Lines 22-30: band 9 is 10 K colder than band 8, and each example is     *)
(* 2.5 K warmer than the one before.                                       *)
TEMPERATURE_MATRIX_KELVINS(num_rows, num_columns) ==
    [t \in DOMAIN VALID_TIMES_UNIX_SEC |->
        [r \in 1..num_rows |->
            [c \in 1..num_columns |->
                [b \in DOMAIN BAND_NUMBERS |->
                    10 * TEMP_MATRIX_BAND8_EXAMPLE1_KELVINS[r][c] - 100 * (b - 1) + 25 * (t - 1)]]]]

(* Lines 46-53, in dBZ *)
REFL_MATRIX_EXAMPLE1_DBZ == << <<10, 20, 30, 40>>, <<20, 30, 40, 50>>, <<30, 40, 50, 60>>, <<40, 50, 60, 70>>, <<50, 60, 70, 80>>, <<60, 40, 20, 0>> >>

(* Lines 55-58: each example is 1 dBZ above the one before.               *)
COMPOSITE_REFL_MATRIX_DBZ(num_rows, num_columns) ==
    [t \in DOMAIN VALID_TIMES_UNIX_SEC |->
        [r \in 1..num_rows |->
            [c \in 1..num_columns |-> REFL_MATRIX_EXAMPLE1_DBZ[r][c] + (t - 1)]]]

(* Lines 37-44: SATELLITE_DICT, cut to its first rows and columns.         *)
SATELLITE_DICT(num_rows, num_columns) ==
    [brightness_temp_kelvins |-> TEMPERATURE_MATRIX_KELVINS(num_rows, num_columns),
     latitudes_deg_n |-> SubSeq(LATITUDES_DEG_N, 1, num_rows),
     longitudes_deg_e |-> SubSeq(LONGITUDES_DEG_E, 1, num_columns),
     valid_times_unix_sec |-> VALID_TIMES_UNIX_SEC,
     band_numbers |-> BAND_NUMBERS]

(* Lines 60-65: RADAR_DICT, cut to its first rows and columns.             *)
RADAR_DICT(num_rows, num_columns) ==
    [composite_refl_dbz |-> COMPOSITE_REFL_MATRIX_DBZ(num_rows, num_columns),
     latitudes_deg_n |-> SubSeq(LATITUDES_DEG_N, 1, num_rows),
     longitudes_deg_e |-> SubSeq(LONGITUDES_DEG_E, 1, num_columns),
     valid_times_unix_sec |-> VALID_TIMES_UNIX_SEC]

(* Lines 67-71, 83-84: what the test expects with factor 2.                *)
TEMP_MATRIX_BAND8_DOWNSAMPLED2 == << <<210, 230>>, <<230, 250>>, <<275, 295>> >>

LATITUDES_DOWNSAMPLED2 == <<5310, 5350, 5390>>

LONGITUDES_DOWNSAMPLED2 == <<24625, 24725>>

(* The reflectivities the unit test would expect with factor 2 if the      *)
(* blocks were averaged.                                                   *)
REFL_MATRIX_DOWNSAMPLED2_averaged == << <<20, 40>>, <<40, 60>>, <<50, 40>> >>

(* Lines 95-99 *)
REFL_MATRIX_DOWNSAMPLED2 == << <<30, 50>>, <<50, 70>>, <<60, 80>> >>

(* Lines 113, 124-125, 136-138: what the test expects with factor 4.       *)
TEMP_MATRIX_BAND8_DOWNSAMPLED4 == << <<230>> >>

LATITUDES_DOWNSAMPLED4 == <<5330>>

LONGITUDES_DOWNSAMPLED4 == <<24675>>

REFL_MATRIX_DOWNSAMPLED4 == << <<70>> >>

RECURSIVE SumSeq(_)
SumSeq(s) == IF Len(s) = 0 THEN 0 ELSE s[1] + SumSeq(Tail(s))

RECURSIVE MaxSeq(_)
MaxSeq(s) == IF Len(s) = 1 THEN s[1] ELSE Max2(s[1], MaxSeq(Tail(s)))

(* The fraction num / den. *)
Fraction(num, den) == [num |-> num, den |-> den]

(* The fraction equals the integer. *)
FractionIs(q, value) == q.num = value * q.den

(* The values of a row-major window of a 2-D matrix: the F-by-F block with *)
(* block indices (i, j).                                                   *)
BlockValues(matrix, i, j, F) ==
    [k \in 1..(F * F) |-> matrix[(i - 1) * F + ((k - 1) \div F) + 1][(j - 1) * F + ((k - 1) % F) + 1]]

(* The values of the i-th window of F elements of a 1-D array.             *)
WindowValues(array, i, F) == [k \in 1..F |-> array[(i - 1) * F + k]]

(* Pooling of the reflectivity by the mean instead of the maximum.         *)
pool_reflectivity_by_mean(matrix, F) ==
    [i \in 1..(Len(matrix) \div F) |->
        [j \in 1..(Len(matrix[1]) \div F) |-> Fraction(SumSeq(BlockValues(matrix, i, j, F)), F * F)]]

(* Mean pooling of a 2-D matrix with window F, trailing rows and columns   *)
(* left out.                                                               *)
pool_2d_mean(matrix, F) ==
    [i \in 1..(Len(matrix) \div F) |->
        [j \in 1..(Len(matrix[1]) \div F) |-> Fraction(SumSeq(BlockValues(matrix, i, j, F)), F * F)]]

(* Maximum pooling of the reflectivity with window F.                      *)
pool_reflectivity(matrix, F) ==
    [i \in 1..(Len(matrix) \div F) |->
        [j \in 1..(Len(matrix[1]) \div F) |-> Fraction(MaxSeq(BlockValues(matrix, i, j, F)), 1)]]

(* Mean pooling of a coordinate array with window F.                       *)
pool_1d_mean(array, F) ==
    [i \in 1..(Len(array) \div F) |-> Fraction(SumSeq(WindowValues(array, i, F)), F)]

(* The coordinates as fractions, unpooled. *)
unpooled(array) == [i \in DOMAIN array |-> Fraction(array[i], 1)]

(* The slice [t, :, :, b] of the temperature matrix. *)
BandSlice(temperature_matrix, t, b) ==
    [r \in DOMAIN temperature_matrix[t] |-> [c \in DOMAIN temperature_matrix[t][r] |-> temperature_matrix[t][r][c][b]]]

(* example_io.downsample_data_in_space: [satellite_dict, radar_dict] after *)
(* the call.                                                               *)
downsample_data_in_space(sat_dict, rad_dict, factor, change_coords) ==
    LET temperature_matrix == sat_dict.brightness_temp_kelvins
        new_temperature_matrix ==
            [t \in DOMAIN temperature_matrix |->
                LET pooled == [b \in DOMAIN sat_dict.band_numbers |-> pool_2d_mean(BandSlice(temperature_matrix, t, b), factor)]
                IN  [r \in DOMAIN pooled[1] |-> [c \in DOMAIN pooled[1][r] |-> [b \in DOMAIN pooled |-> pooled[b][r][c]]]]]
        new_refl_matrix ==
            [t \in DOMAIN rad_dict.composite_refl_dbz |-> pool_reflectivity(rad_dict.composite_refl_dbz[t], factor)]
        new_latitudes(array) == IF change_coords THEN pool_1d_mean(array, factor) ELSE unpooled(array)
    IN  [satellite_dict |->
            [brightness_temp_kelvins |-> new_temperature_matrix,
             latitudes_deg_n |-> new_latitudes(sat_dict.latitudes_deg_n),
             longitudes_deg_e |-> new_latitudes(sat_dict.longitudes_deg_e),
             valid_times_unix_sec |-> sat_dict.valid_times_unix_sec,
             band_numbers |-> sat_dict.band_numbers],
         radar_dict |->
            [composite_refl_dbz |-> new_refl_matrix,
             latitudes_deg_n |-> new_latitudes(rad_dict.latitudes_deg_n),
             longitudes_deg_e |-> new_latitudes(rad_dict.longitudes_deg_e),
             valid_times_unix_sec |-> rad_dict.valid_times_unix_sec]]

DownUnchanged == UNCHANGED <<down_satellite_dict, down_radar_dict, downsampling_factor, change_coordinates>>

(* The caller holds the test's dictionaries, or their first rows and       *)
(* columns, and a factor no larger than the grid.                          *)
DownInit ==
    /\ down_pc = "call"
    /\ \E num_rows \in DOMAIN LATITUDES_DEG_N, num_columns \in DOMAIN LONGITUDES_DEG_E :
          /\ down_satellite_dict = SATELLITE_DICT(num_rows, num_columns)
          /\ down_radar_dict = RADAR_DICT(num_rows, num_columns)
          /\ downsampling_factor \in 1..Min2(MaxFactor, Min2(num_rows, num_columns))
    /\ change_coordinates \in BOOLEAN
    /\ new_satellite_dict = <<>>
    /\ new_radar_dict = <<>>
    /\ EarlierIdle
    /\ DownOthersIdle

(* example_io_test.py, lines 172-179 and 193-200: the call.                *)
DownCall ==
    /\ down_pc = "call"
    /\ LET result == downsample_data_in_space(down_satellite_dict, down_radar_dict, downsampling_factor, change_coordinates)
       IN  /\ new_satellite_dict' = result.satellite_dict
           /\ new_radar_dict' = result.radar_dict
    /\ down_pc' = "done"
    /\ DownUnchanged
    /\ DownFrame

DownNext == DownCall

SpecDown == DownInit /\ [][DownNext]_vars

(* The grid given: M rows, N columns. *)
NumRowsGiven == Len(down_satellite_dict.latitudes_deg_n)

NumColumnsGiven == Len(down_satellite_dict.longitudes_deg_e)

(* The cells of the block (i, j) of the grid given. *)
BlockCells(i, j) ==
    {<<r, c>> \in (1..NumRowsGiven) \X (1..NumColumnsGiven) :
        /\ (i - 1) * downsampling_factor < r /\ r <= i * downsampling_factor
        /\ (j - 1) * downsampling_factor < c /\ c <= j * downsampling_factor}

RECURSIVE SumOfCells(_, _)
SumOfCells(matrix, cells) ==
    IF cells = {} THEN 0
    ELSE LET cell == CHOOSE x \in cells : TRUE
         IN  matrix[cell[1]][cell[2]] + SumOfCells(matrix, cells \ {cell})

(* q is the mean of the matrix over the cells. *)
IsMeanOfCells(q, matrix, cells) == q.num * Cardinality(cells) = SumOfCells(matrix, cells) * q.den

(* q is the maximum of the matrix over the cells. *)
IsMaxOfCells(q, matrix, cells) ==
    /\ \E cell \in cells : FractionIs(q, matrix[cell[1]][cell[2]])
    /\ \A cell \in cells : matrix[cell[1]][cell[2]] * q.den <= q.num

(* q is the mean of the F coordinates of window i. *)
IsMeanOfWindow(q, array, i) ==
    q.num * downsampling_factor = q.den * SumSeq(SubSeq(array, (i - 1) * downsampling_factor + 1, i * downsampling_factor))

(* The matrix of fractions equals the matrix of integers plus an offset.   *)
MatrixIs(fractions, integers, scale, offset) ==
    /\ DOMAIN fractions = DOMAIN integers
    /\ \A r \in DOMAIN integers :
          /\ DOMAIN fractions[r] = DOMAIN integers[r]
          /\ \A c \in DOMAIN integers[r] : FractionIs(fractions[r][c], scale * integers[r][c] + offset)

ArrayIs(fractions, integers) ==
    /\ DOMAIN fractions = DOMAIN integers
    /\ \A i \in DOMAIN integers : FractionIs(fractions[i], integers[i])

(* The dictionaries returned are the ones the unit test expects.           *)
ReturnedDictsAre(temp_band8, refl, latitudes, longitudes) ==
    /\ \A t \in DOMAIN VALID_TIMES_UNIX_SEC, b \in DOMAIN BAND_NUMBERS :
          MatrixIs(BandSlice(new_satellite_dict.brightness_temp_kelvins, t, b), temp_band8, 10, 25 * (t - 1) - 100 * (b - 1))
    /\ \A t \in DOMAIN VALID_TIMES_UNIX_SEC :
          MatrixIs(new_radar_dict.composite_refl_dbz[t], refl, 1, t - 1)
    /\ ArrayIs(new_satellite_dict.latitudes_deg_n, latitudes)
    /\ ArrayIs(new_satellite_dict.longitudes_deg_e, longitudes)
    /\ ArrayIs(new_radar_dict.latitudes_deg_n, latitudes)
    /\ ArrayIs(new_radar_dict.longitudes_deg_e, longitudes)

(* The whole grid of the unit tests was given. *)
TestGridGiven ==
    /\ NumRowsGiven = Len(LATITUDES_DEG_N)
    /\ NumColumnsGiven = Len(LONGITUDES_DEG_E)

(* C20: with integer factor F and change_coordinates true, an M-by-N grid  *)
(* becomes a floor(M/F)-by-floor(N/F) grid; for every time and band each   *)
(* brightness temperature is the mean of its F-by-F block, each composite  *)
(* reflectivity the maximum of its block, each latitude and longitude the  *)
(* mean of the block's F coordinates; trailing rows and columns are left   *)
(* out; valid times and band numbers are unchanged.  On the grid of the    *)
(* unit tests, factors 2 and 4 give the dictionaries the tests expect.     *)
C20_DownsamplingPoolsBlocks ==
    (down_pc = "done" /\ change_coordinates) =>
        LET new_rows == 1..(NumRowsGiven \div downsampling_factor)
            new_columns == 1..(NumColumnsGiven \div downsampling_factor)
        IN  /\ DOMAIN new_satellite_dict.latitudes_deg_n = new_rows
            /\ DOMAIN new_satellite_dict.longitudes_deg_e = new_columns
            /\ DOMAIN new_radar_dict.latitudes_deg_n = new_rows
            /\ DOMAIN new_radar_dict.longitudes_deg_e = new_columns
            /\ \A t \in DOMAIN VALID_TIMES_UNIX_SEC :
                  /\ DOMAIN new_radar_dict.composite_refl_dbz[t] = new_rows
                  /\ DOMAIN new_satellite_dict.brightness_temp_kelvins[t] = new_rows
                  /\ \A i \in new_rows :
                        /\ DOMAIN new_radar_dict.composite_refl_dbz[t][i] = new_columns
                        /\ DOMAIN new_satellite_dict.brightness_temp_kelvins[t][i] = new_columns
                        /\ \A j \in new_columns :
                              /\ IsMaxOfCells(new_radar_dict.composite_refl_dbz[t][i][j], down_radar_dict.composite_refl_dbz[t], BlockCells(i, j))
                              /\ \A b \in DOMAIN BAND_NUMBERS :
                                    IsMeanOfCells(new_satellite_dict.brightness_temp_kelvins[t][i][j][b], BandSlice(down_satellite_dict.brightness_temp_kelvins, t, b), BlockCells(i, j))
            /\ \A i \in new_rows :
                  /\ IsMeanOfWindow(new_satellite_dict.latitudes_deg_n[i], down_satellite_dict.latitudes_deg_n, i)
                  /\ IsMeanOfWindow(new_radar_dict.latitudes_deg_n[i], down_radar_dict.latitudes_deg_n, i)
            /\ \A j \in new_columns :
                  /\ IsMeanOfWindow(new_satellite_dict.longitudes_deg_e[j], down_satellite_dict.longitudes_deg_e, j)
                  /\ IsMeanOfWindow(new_radar_dict.longitudes_deg_e[j], down_radar_dict.longitudes_deg_e, j)
            /\ new_satellite_dict.valid_times_unix_sec = down_satellite_dict.valid_times_unix_sec
            /\ new_satellite_dict.band_numbers = down_satellite_dict.band_numbers
            /\ new_radar_dict.valid_times_unix_sec = down_radar_dict.valid_times_unix_sec
            /\ (TestGridGiven /\ downsampling_factor = 2)
                  => ReturnedDictsAre(TEMP_MATRIX_BAND8_DOWNSAMPLED2, REFL_MATRIX_DOWNSAMPLED2, LATITUDES_DOWNSAMPLED2, LONGITUDES_DOWNSAMPLED2)
            /\ (TestGridGiven /\ downsampling_factor = 4)
                  => ReturnedDictsAre(TEMP_MATRIX_BAND8_DOWNSAMPLED4, REFL_MATRIX_DOWNSAMPLED4, LATITUDES_DOWNSAMPLED4, LONGITUDES_DOWNSAMPLED4)

(* The 6-by-4 grid of the unit tests with factor 4: one row and one        *)
(* column are returned, the last two rows are left out.                    *)
C20_Witness ==
    /\ down_pc = "done"
    /\ change_coordinates
    /\ TestGridGiven
    /\ downsampling_factor = 4
    /\ Len(new_satellite_dict.latitudes_deg_n) = 1
    /\ FractionIs(new_radar_dict.composite_refl_dbz[1][1][1], 70)

(* The grid of the unit tests with factor 2. *)
C20_TestFactor2Reached ==
    /\ down_pc = "done"
    /\ change_coordinates
    /\ TestGridGiven
    /\ downsampling_factor = 2
    /\ FractionIs(new_satellite_dict.brightness_temp_kelvins[1][3][1][1], 2750)

(***************************************************************************)
(* downsample_data_in_space on the 6-by-4 grid of the unit tests           *)
(* (io/example_io_test.py, lines 13-150), factor 2 and factor 4.           *)
(***************************************************************************)

(* Every cell of the grid given. *)
AllCells == (1..NumRowsGiven) \X (1..NumColumnsGiven)

(* q is the midpoint of the first and the last element of the array. *)
IsMidpointOfArray(q, array) == q.num * 2 = q.den * (array[1] + array[Len(array)])

(* The test grid was given with this factor and change_coordinates true,   *)
(* and the call has returned.                                              *)
TestCallReturned(factor) ==
    /\ down_pc = "done"
    /\ change_coordinates
    /\ TestGridGiven
    /\ downsampling_factor = factor

(* The grid returned has these numbers of rows and columns. *)
ReturnedGridIs(num_rows, num_columns) ==
    /\ Len(new_satellite_dict.latitudes_deg_n) = num_rows
    /\ Len(new_satellite_dict.longitudes_deg_e) = num_columns
    /\ Len(new_radar_dict.latitudes_deg_n) = num_rows
    /\ Len(new_radar_dict.longitudes_deg_e) = num_columns
    /\ \A t \in DOMAIN VALID_TIMES_UNIX_SEC :
          /\ Len(new_satellite_dict.brightness_temp_kelvins[t]) = num_rows
          /\ Len(new_radar_dict.composite_refl_dbz[t]) = num_rows
          /\ \A r \in 1..num_rows :
                /\ Len(new_satellite_dict.brightness_temp_kelvins[t][r]) = num_columns
                /\ Len(new_radar_dict.composite_refl_dbz[t][r]) = num_columns

(* The coordinates returned are the means of the windows of F coordinates. *)
ReturnedCoordinatesAreWindowMeans ==
    /\ \A i \in DOMAIN new_satellite_dict.latitudes_deg_n :
          IsMeanOfWindow(new_satellite_dict.latitudes_deg_n[i], down_satellite_dict.latitudes_deg_n, i)
    /\ \A j \in DOMAIN new_satellite_dict.longitudes_deg_e :
          IsMeanOfWindow(new_satellite_dict.longitudes_deg_e[j], down_satellite_dict.longitudes_deg_e, j)

(* The temperatures returned are the averages of their blocks. *)
ReturnedTemperaturesAreBlockMeans ==
    \A t \in DOMAIN VALID_TIMES_UNIX_SEC, b \in DOMAIN BAND_NUMBERS :
        \A i \in DOMAIN new_satellite_dict.latitudes_deg_n, j \in DOMAIN new_satellite_dict.longitudes_deg_e :
            IsMeanOfCells(new_satellite_dict.brightness_temp_kelvins[t][i][j][b], BandSlice(down_satellite_dict.brightness_temp_kelvins, t, b), BlockCells(i, j))

(* The reflectivities returned are the averages of their blocks. *)
ReturnedReflectivitiesAreBlockMeans ==
    \A t \in DOMAIN VALID_TIMES_UNIX_SEC :
        \A i \in DOMAIN new_radar_dict.latitudes_deg_n, j \in DOMAIN new_radar_dict.longitudes_deg_e :
            IsMeanOfCells(new_radar_dict.composite_refl_dbz[t][i][j], down_radar_dict.composite_refl_dbz[t], BlockCells(i, j))

(* The reflectivities returned are the maxima of their blocks. *)
ReturnedReflectivitiesAreBlockMaxima ==
    \A t \in DOMAIN VALID_TIMES_UNIX_SEC :
        \A i \in DOMAIN new_radar_dict.latitudes_deg_n, j \in DOMAIN new_radar_dict.longitudes_deg_e :
            IsMaxOfCells(new_radar_dict.composite_refl_dbz[t][i][j], down_radar_dict.composite_refl_dbz[t], BlockCells(i, j))

(* The one cell returned is at the midpoint of the whole domain and holds  *)
(* the averages over the whole domain.                                     *)
ReturnedCellIsWholeDomainAverage ==
    /\ IsMidpointOfArray(new_satellite_dict.latitudes_deg_n[1], down_satellite_dict.latitudes_deg_n)
    /\ IsMidpointOfArray(new_satellite_dict.longitudes_deg_e[1], down_satellite_dict.longitudes_deg_e)
    /\ \A t \in DOMAIN VALID_TIMES_UNIX_SEC :
          /\ IsMeanOfCells(new_radar_dict.composite_refl_dbz[t][1][1], down_radar_dict.composite_refl_dbz[t], AllCells)
          /\ \A b \in DOMAIN BAND_NUMBERS :
                IsMeanOfCells(new_satellite_dict.brightness_temp_kelvins[t][1][1][b], BandSlice(down_satellite_dict.brightness_temp_kelvins, t, b), AllCells)

C21_Factor4OffCentre ==
    /\ TestCallReturned(4)
    /\ FractionIs(new_satellite_dict.latitudes_deg_n[1], 5330)
    /\ ~ReturnedCellIsWholeDomainAverage

(***************************************************************************)
(* fractions_skill_score, in machine_learning/custom_losses.py (lines      *)
(* 51-115) and in custom_losses.py (lines 141-212).  A tensor is one       *)
(* example with one channel; floating-point values are exact fractions,    *)
(* and the result of 0. / 0. is NaN.                                       *)
(***************************************************************************)

(* Largest half window size given. *)
MaxHalfWindowSize == 1

(* The pixels of the tensors given. *)
TensorPixels == (1..3) \X (1..3)

(* The values of the tensors given. *)
TensorValues == {0, 1}

Tensors == [TensorPixels -> TensorValues]

(* What a loss function returns. *)
LossNumber(num, den) == [kind |-> "number", num |-> num, den |-> den]

LossNaN == [kind |-> "NaN", num |-> 0, den |-> 0]

LossError == [kind |-> "ValueError", num |-> 0, den |-> 0]

(* The loss value is exactly this integer. *)
LossIs(value, n) == value.kind = "number" /\ value.num = n * value.den

RECURSIVE SumOverSet(_, _)
SumOverSet(f, S) ==
    IF S = {} THEN 0
    ELSE LET x == CHOOSE y \in S : TRUE IN f[x] + SumOverSet(f, S \ {x})

(* The pixels where a window of half size k fits (padding 'valid').        *)
ValidCentres(k) ==
    {p \in TensorPixels : \A q \in ((p[1] - k)..(p[1] + k)) \X ((p[2] - k)..(p[2] + k)) : q \in TensorPixels}

(* K.conv2d with the mean filter of create_mean_filter, padding 'valid':   *)
(* at each centre, the sum over the window, to be divided by the number    *)
(* of pixels (1 + 2k)^2 of the window.                                     *)
conv2d_window_sums(tensor, k) ==
    [p \in ValidCentres(k) |-> SumOverSet(tensor, ((p[1] - k)..(p[1] + k)) \X ((p[2] - k)..(p[2] + k)))]

(* actual_mse / reference_mse: both are means over the same pixels of      *)
(* values with the same denominator, so the quotient is the quotient of    *)
(* the sums; 0. / 0. is NaN.                                               *)
mse_quotient(smoothed_target, smoothed_prediction) ==
    LET centres == DOMAIN smoothed_target
        actual == SumOverSet([p \in centres |-> (smoothed_target[p] - smoothed_prediction[p]) * (smoothed_target[p] - smoothed_prediction[p])], centres)
        reference == SumOverSet([p \in centres |-> smoothed_target[p] * smoothed_target[p] + smoothed_prediction[p] * smoothed_prediction[p]], centres)
    IN  IF reference = 0 THEN LossNaN ELSE LossNumber(actual, reference)

(* 1. - x *)
one_minus(value) == IF value.kind = "number" THEN LossNumber(value.den - value.num, value.den) ELSE value

(* machine_learning/custom_losses.py, lines 51-115: the value of           *)
(* fractions_skill_score(k, as_loss)(target, prediction).  A window larger *)
(* than the tensor is an error of the convolution.                         *)
fractions_skill_score(k, as_loss, target, prediction) ==
    IF ValidCentres(k) = {} THEN LossError
    ELSE LET quotient == mse_quotient(conv2d_window_sums(target, k), conv2d_window_sums(prediction, k))
         IN  IF as_loss THEN quotient ELSE one_minus(quotient)

(* custom_losses.py, lines 141-212: the same computation.                  *)
fractions_skill_score_top(k, as_loss, target, prediction) ==
    IF ValidCentres(k) = {} THEN LossError
    ELSE LET quotient == mse_quotient(conv2d_window_sums(target, k), conv2d_window_sums(prediction, k))
         IN  IF as_loss THEN quotient ELSE one_minus(quotient)

ZeroTensor == [p \in TensorPixels |-> 0]

FssUnchanged == UNCHANGED <<fss_module, half_window_size_px, use_as_loss_function, target_tensor, prediction_tensor>>

(* The loss function has been made; it is about to be called on a target   *)
(* and on a prediction that is the target, its complement, or zero.        *)
FssInit ==
    /\ fss_pc = "call"
    /\ fss_module \in {"machine_learning", "top"}
    /\ half_window_size_px \in 0..MaxHalfWindowSize
    /\ use_as_loss_function \in BOOLEAN
    /\ target_tensor \in Tensors
    /\ prediction_tensor \in {target_tensor, [p \in TensorPixels |-> 1 - target_tensor[p]], ZeroTensor}
    /\ loss_value = <<>>
    /\ EarlierIdle
    /\ FssOthersIdle

(* loss(target_tensor, prediction_tensor) *)
FssEvaluate ==
    /\ fss_pc = "call"
    /\ loss_value' = IF fss_module = "top"
                     THEN fractions_skill_score_top(half_window_size_px, use_as_loss_function, target_tensor, prediction_tensor)
                     ELSE fractions_skill_score(half_window_size_px, use_as_loss_function, target_tensor, prediction_tensor)
    /\ fss_pc' = "done"
    /\ FssUnchanged
    /\ FssFrame

FssNext == FssEvaluate

SpecFss == FssInit /\ [][FssNext]_vars

(* C22: for every half window size and every tensor t, the function made   *)
(* with use_as_loss_function true returns exactly 0 on (t, t) and the one  *)
(* made with use_as_loss_function false returns exactly 1, in both         *)
(* modules.                                                                *)
C22_PerfectForecastScores ==
    (fss_pc = "done" /\ prediction_tensor = target_tensor) =>
        LossIs(loss_value, IF use_as_loss_function THEN 0 ELSE 1)

(* What holds: the same, for the tensors whose smoothed field is not zero  *)
(* everywhere; for the others the value is NaN.                            *)
FssPerfectForecastUnlessZero ==
    (fss_pc = "done" /\ prediction_tensor = target_tensor) =>
        IF \E p \in ValidCentres(half_window_size_px) : conv2d_window_sums(target_tensor, half_window_size_px)[p] # 0
        THEN LossIs(loss_value, IF use_as_loss_function THEN 0 ELSE 1)
        ELSE loss_value = LossNaN

(* The zero tensor against itself gives NaN. *)
FssZeroTensorGivesNaN ==
    /\ fss_pc = "done"
    /\ target_tensor = ZeroTensor
    /\ prediction_tensor = ZeroTensor
    /\ loss_value.kind = "NaN"

(* A non-zero tensor against itself, as a loss, gives 0. *)
FssNonZeroTensorGivesZero ==
    /\ fss_pc = "done"
    /\ target_tensor # ZeroTensor
    /\ prediction_tensor = target_tensor
    /\ use_as_loss_function
    /\ LossIs(loss_value, 0)

(***************************************************************************)
(* echo_classification: properties of criterion 1 and of the final flags.  *)
(***************************************************************************)

(* Criterion 1 has been applied. *)
Criterion1Applied == Len(flags_after) >= 1

(* The last height level criterion 1 used. *)
Criterion1LastLevel ==
    criterion1_max_height_index(grid_metadata_dict[HEIGHTS_KEY], echo_option_dict[MAX_PEAKEDNESS_HEIGHT_KEY])

(* The column of the pixel has no reflectivity above 0 dBZ at the levels   *)
(* criterion 1 used.                                                       *)
NoEchoInColumn(p) ==
    \A k \in 1..Criterion1LastLevel : ~(reflectivity_matrix_dbz[<<p[1], p[2], k>>] > 0)

(* C23: a pixel whose column has no reflectivity above 0 at any height     *)
(* used by criterion 1 is left non-convective by criterion 1, whatever the *)
(* reflectivities around it and whether or not there is a threshold on the *)
(* composite reflectivity.                                                 *)
C23_NoEchoNotConvective ==
    Criterion1Applied =>
        \A p \in Pixels : NoEchoInColumn(p) => p \notin flags_after[1]

(* A column of 0 dBZ among columns of -30 dBZ is flagged by criterion 1.   *)
Criterion1FlagsEmptyColumn ==
    /\ Criterion1Applied
    /\ \E p \in flags_after[1] :
          /\ \A k \in 1..NumHeights : reflectivity_matrix_dbz[<<p[1], p[2], k>>] = 0
          /\ echo_option_dict[MIN_COMPOSITE_REFL_CRITERION1_KEY].is_none

(* A height array is strictly increasing. *)
StrictlyIncreasing(heights) == \A k \in 1..(Len(heights) - 1) : heights[k] < heights[k + 1]

(* C24: when the heights are strictly increasing and one of them at least  *)
(* is at or below max_peakedness_height_m_asl, every level criterion 1     *)
(* uses is at or below that maximum; when no level is at or above the      *)
(* maximum, all the levels are used.                                       *)
C24_PeakednessLevelsBelowMaximum ==
    LET heights == grid_metadata_dict[HEIGHTS_KEY]
        max_height == echo_option_dict[MAX_PEAKEDNESS_HEIGHT_KEY]
    IN  (/\ Criterion1Applied
         /\ StrictlyIncreasing(heights)
         /\ \E k \in DOMAIN heights : heights[k] <= max_height) =>
            /\ \A k \in 1..Criterion1LastLevel : heights[k] <= max_height
            /\ (\A k \in DOMAIN heights : heights[k] < max_height) => Criterion1LastLevel = Len(heights)

(* What holds: the levels used are those below the maximum and the first   *)
(* one at or above it.                                                     *)
Criterion1LevelsUsed ==
    LET heights == grid_metadata_dict[HEIGHTS_KEY]
        max_height == echo_option_dict[MAX_PEAKEDNESS_HEIGHT_KEY]
    IN  Criterion1Applied =>
            /\ \A k \in 1..(Criterion1LastLevel - 1) : heights[k] < max_height
            /\ (\E k \in DOMAIN heights : heights[k] >= max_height) => heights[Criterion1LastLevel] >= max_height
            /\ (\A k \in DOMAIN heights : heights[k] < max_height) => Criterion1LastLevel = Len(heights)

(* The default maximum, 9000 m: the level at 12000 m is used.              *)
Criterion1UsesLevelAboveMaximum ==
    /\ Criterion1Applied
    /\ echo_option_dict[MAX_PEAKEDNESS_HEIGHT_KEY] = 9000
    /\ grid_metadata_dict[HEIGHTS_KEY][Criterion1LastLevel] = 12000

(* The 8 neighbours of a pixel that are in the grid. *)
Neighbours(p) == {q \in Pixels : q # p /\ Abs(q[1] - p[1]) <= 1 /\ Abs(q[2] - p[2]) <= 1}

(* C25: in the flag matrix that find_convective_pixels returns, every      *)
(* convective pixel has a convective pixel among its 8 neighbours, the     *)
(* pixels outside the grid counting as non-convective.                     *)
C25_NoIsolatedConvectivePixel ==
    echo_pc = "returned" =>
        \A p \in convective_flag_matrix : \E q \in Neighbours(p) : q \in convective_flag_matrix

(* Criterion 4 removed an isolated pixel, criterion 5 added a pixel, and   *)
(* flagged pixels are returned.                                            *)
C25_Witness ==
    /\ echo_pc = "returned"
    /\ convective_flag_matrix # {}
    /\ \E other \in SUBSET Pixels : other # {} /\ flags_after[3] = flags_after[4] \cup other /\ flags_after[4] \cap other = {}
    /\ flags_after[5] # flags_after[4]

(***************************************************************************)
(* The valid times in the dictionary the one-day readers return.           *)
(***************************************************************************)

(* valid_times_unix_sec has one entry per example, the valid time of that  *)
(* example: the time of its predictors plus the lead time.                 *)
ValidTimesMatchExamples ==
    /\ Len(data_dict.valid_times_unix_sec) = Len(data_dict.predictor_matrix)
    /\ Len(data_dict.valid_times_unix_sec) = Len(data_dict.target_matrix)
    /\ \A i \in DOMAIN data_dict.valid_times_unix_sec :
          i \in DOMAIN data_dict.predictor_matrix =>
              data_dict.valid_times_unix_sec[i] = data_dict.predictor_matrix[i] + lead_time_seconds

(* C26: the dictionary the one-day readers return has valid_times_unix_sec *)
(* of the length of predictor_matrix and target_matrix, element i being    *)
(* the valid time of example i, whether num_examples_to_read exceeds the   *)
(* number of aligned examples or not.                                      *)
C26_ValidTimesMatchExamples ==
    (read_pc = "done" /\ data_dict.kind = "data") => ValidTimesMatchExamples

(* It holds when fewer examples are aligned than are to be read: nothing   *)
(* is subsampled.                                                          *)
ValidTimesMatchWhenNotSubsampled ==
    (/\ read_pc = "done"
     /\ data_dict.kind = "data"
     /\ Len(data_dict.valid_times_unix_sec) < num_examples_to_read) => ValidTimesMatchExamples

(* More aligned examples than examples to read: more valid times are       *)
(* returned than examples.                                                 *)
MoreValidTimesThanExamples ==
    /\ read_pc = "done"
    /\ data_dict.kind = "data"
    /\ Len(data_dict.predictor_matrix) = num_examples_to_read
    /\ Len(data_dict.valid_times_unix_sec) > num_examples_to_read

(* As many aligned examples as examples to read: the examples are in the   *)
(* order of the random choice, the valid times in the order of the file.   *)
ValidTimesInAnotherOrder ==
    /\ read_pc = "done"
    /\ data_dict.kind = "data"
    /\ pathway = "raw"
    /\ Len(data_dict.valid_times_unix_sec) = Len(data_dict.target_matrix)
    /\ \E i \in DOMAIN data_dict.target_matrix :
          data_dict.valid_times_unix_sec[i] # data_dict.target_matrix[i]

(***************************************************************************)
(* apply_model: the index ranges model prediction is invoked on.           *)
(***************************************************************************)

(* min(b, E) for the batch size requested, None standing for E *)
RequestedBatchSize ==
    IF batch_size_arg.type = "None" THEN Len(predictor_matrix)
    ELSE Min2(batch_size_arg.value, Len(predictor_matrix))

RangeSize(range) == range[2] - range[1] + 1

(* The ranges so far start at 0, each starts where the one before ended,   *)
(* none is larger than min(b, E) and all but the last have that size.      *)
RangesConsecutive ==
    /\ predict_ranges # <<>> => predict_ranges[1][1] = 0
    /\ \A k \in DOMAIN predict_ranges :
          /\ RangeSize(predict_ranges[k]) >= 1
          /\ RangeSize(predict_ranges[k]) <= RequestedBatchSize
          /\ predict_ranges[k][2] <= Len(predictor_matrix) - 1
          /\ k < Len(predict_ranges) =>
                /\ RangeSize(predict_ranges[k]) = RequestedBatchSize
                /\ predict_ranges[k + 1][1] = predict_ranges[k][2] + 1

(* Every example is in one range and one only. *)
RangesCoverOnce ==
    \A i \in 0..(Len(predictor_matrix) - 1) :
        Cardinality({k \in DOMAIN predict_ranges :
                        predict_ranges[k][1] <= i /\ i <= predict_ranges[k][2]}) = 1

(* C27: for E >= 1 examples and a batch size b that is None or >= 1,       *)
(* apply_model invokes prediction on consecutive index ranges, in          *)
(* increasing order and pairwise disjoint, of size at most min(b, E) and,  *)
(* but for the last, exactly min(b, E); when it returns they cover         *)
(* 0..E-1 exactly once and no entry of the array returned is NaN.          *)
C27_BatchesPartitionExamples ==
    /\ apply_pc \in {"loop", "returned"} => RangesConsecutive
    /\ apply_pc = "returned" =>
          /\ RangesCoverOnce
          /\ Len(forecast_prob_matrix) = Len(predictor_matrix)
          /\ \A i \in DOMAIN forecast_prob_matrix : forecast_prob_matrix[i] # -1

(* Three examples in batches of 2: the ranges 0..1 and 2..2. *)
C27_Witness ==
    /\ apply_pc = "returned"
    /\ batch_size_arg = [type |-> "int", value |-> 2]
    /\ predict_ranges = <<(<<0, 1>>), (<<2, 2>>)>>
    /\ Len(forecast_prob_matrix) = 3

(* A batch size above the number of examples: one range, of E examples. *)
C27_OneBatchOfAllExamples ==
    /\ apply_pc = "returned"
    /\ batch_size_arg = [type |-> "int", value |-> 4]
    /\ predict_ranges = <<(<<0, 2>>)>>

(***************************************************************************)
(* The generators: does a request for a batch end?                         *)
(***************************************************************************)

(* The dates the generator reads, once it has found them *)
EligibleDates == Range(valid_date_strings)

SomeDateHasExamples == \E d \in EligibleDates : num_aligned[d] >= 1

NoDateHasExamples == \A d \in EligibleDates : num_aligned[d] = 0

NoReadRaises == \A d \in EligibleDates : num_aligned[d] >= 0

(* A request for a batch is being served. *)
RequestPending == gen_pc = "reading"

C28_CyclingWithoutExamples ==
    /\ RequestPending
    /\ NoDateHasExamples
    /\ Len(valid_date_strings) >= 2
    /\ date_index = Len(valid_date_strings)
    /\ num_examples_in_memory = 0

(* Without an aligned example somewhere a pending request is not followed  *)
(* by a batch.                                                             *)
EveryRequestYields == RequestPending ~> (gen_pc = "yielded")

(***************************************************************************)
(* twb_radar_io.read_file: the temporary text file.                        *)
(***************************************************************************)

(* The call of the process is over, with a value returned or an error. *)
ReadFileExited(p) == twb_pc[p] \in {"returned", "raised"}

(* C29: when read_file exits, with a value or with an error, the temporary *)
(* text file the call made is no longer on disk.                           *)
C29_TemporaryFileDeletedOnExit ==
    \A p \in twb_procs :
        ReadFileExited(p) => temporary_file_name(p, num_read_calls[p]) \notin temporary_files

(* What holds: the file is gone when the call returns a value. *)
TemporaryFileDeletedOnReturn ==
    \A p \in twb_procs :
        twb_pc[p] = "returned" => temporary_file_name(p, num_read_calls[p]) \notin temporary_files

(* The compiler failed: the call raised and its temporary file is on disk. *)
TemporaryFileLeftByCompilerFailure ==
    /\ twb_pc[1] = "raised"
    /\ call_compile_failed[1]
    /\ temporary_file_name(1, num_read_calls[1]) \in temporary_files

(* The decoder failed: the call raised and its temporary file is on disk.  *)
TemporaryFileLeftByDecoderFailure ==
    /\ twb_pc[1] = "raised"
    /\ call_ran_decoder[1]
    /\ temporary_file_name(1, num_read_calls[1]) \in temporary_files

(* Two failed calls have left two files. *)
TemporaryFilesAccumulate ==
    /\ twb_pc[1] = "idle"
    /\ Cardinality(temporary_files) = 2

(***************************************************************************)
(* scripts/plot_radar.py: _run (lines 355-452).  The mask is known by the  *)
(* grid it is on and by the factor its resolution was coarsened by, 1 when *)
(* it is at the resolution of the file.  The interpreter is Python 3, in   *)
(* which an ordering comparison of None with an integer raises TypeError.  *)
(***************************************************************************)

(* Reflectivity files found in the date range. *)
MaxInputFiles == 2

(* A local that is None, or an integer *)
NoneFactor == [is_none |-> TRUE, value |-> 0]

IntFactor(n) == [is_none |-> FALSE, value |-> n]

(* Times of day, those just outside 0...86399 among them *)
DailyTimeValues == {-1, 0, DAYS_TO_SECONDS - 1, DAYS_TO_SECONDS}

NoMask == [kind |-> "None", on_satellite_grid |-> FALSE, downsampling_factor |-> 1]

(* radar_io.read_mask_file: the mask on the radar grid, at full resolution *)
read_mask_file(file_name) ==
    [kind |-> "mask", on_satellite_grid |-> FALSE, downsampling_factor |-> 1]

(* radar_io.expand_to_satellite_grid *)
expand_mask_to_satellite_grid(any_radar_dict) ==
    [any_radar_dict EXCEPT !.on_satellite_grid = TRUE]

(* radar_io.downsample_in_space *)
downsample_in_space(any_radar_dict, factor) ==
    [any_radar_dict EXCEPT !.downsampling_factor = factor]

(* factor > n in Python 3: "True", "False", or the TypeError of None > n *)
factor_greater_than(factor, n) ==
    IF factor.is_none THEN "TypeError"
    ELSE IF factor.value > n THEN "True" ELSE "False"

PlotUnchanged ==
    UNCHANGED <<mask_file_name, spatial_downsampling_factor_arg, expand_to_satellite_grid,
                daily_times_seconds, input_file_names>>

(* The script has parsed its arguments and calls _run. *)
PlotInit ==
    /\ plot_pc = "start"
    /\ plot_error = "none"
    /\ mask_file_name \in {"", "mask.nc"}
    /\ spatial_downsampling_factor_arg \in (-1)..MaxFactor
    /\ spatial_downsampling_factor = IntFactor(spatial_downsampling_factor_arg)
    /\ expand_to_satellite_grid \in BOOLEAN
    /\ daily_times_seconds \in (SUBSET DailyTimeValues) \ {{}}
    /\ mask_dict = NoMask
    /\ input_file_names \in {[i \in 1..n |-> i] : n \in 1..MaxInputFiles}
    /\ num_days_plotted = 0
    /\ reflectivity_factors_plotted = <<>>
    /\ EarlierIdle
    /\ PlotOthersIdle

(* Lines 375-398: the factor becomes None if it is 1 or less, the mask is  *)
(* read, expanded and downsampled.                                         *)
PlotPrepareMask ==
    /\ plot_pc = "start"
    /\ LET factor == IF spatial_downsampling_factor.value <= 1 THEN NoneFactor
                     ELSE spatial_downsampling_factor
           mask_read == read_mask_file(mask_file_name)
           mask_expanded == IF expand_to_satellite_grid
                            THEN expand_mask_to_satellite_grid(mask_read)
                            ELSE mask_read
           comparison == factor_greater_than(factor, 1)
       IN  /\ spatial_downsampling_factor' = factor
           /\ IF mask_file_name = ""
              THEN /\ mask_dict' = NoMask
                   /\ plot_pc' = "check_times"
                   /\ UNCHANGED plot_error
              ELSE IF comparison = "TypeError"
              THEN /\ mask_dict' = mask_expanded
                   /\ plot_pc' = "raised"
                   /\ plot_error' = "TypeError"
              ELSE /\ mask_dict' = IF comparison = "True"
                                   THEN downsample_in_space(mask_expanded, factor.value)
                                   ELSE mask_expanded
                   /\ plot_pc' = "check_times"
                   /\ UNCHANGED plot_error
    /\ UNCHANGED <<num_days_plotted, reflectivity_factors_plotted>>
    /\ PlotUnchanged
    /\ PlotFrame

(* Lines 400-403: every daily time is in 0...86399. *)
PlotCheckTimes ==
    /\ plot_pc = "check_times"
    /\ IF \A t \in daily_times_seconds : t >= 0 /\ t < DAYS_TO_SECONDS
       THEN /\ plot_pc' = "plot_days"
            /\ UNCHANGED plot_error
       ELSE /\ plot_pc' = "raised"
            /\ plot_error' = "InvalidInput"
    /\ UNCHANGED <<spatial_downsampling_factor, mask_dict, num_days_plotted,
                   reflectivity_factors_plotted>>
    /\ PlotUnchanged
    /\ PlotFrame

(* Lines 426-452 and 292-301: one day is read and plotted, its             *)
(* reflectivity downsampled if the factor is not None.                     *)
PlotOneDay ==
    /\ plot_pc = "plot_days"
    /\ num_days_plotted < Len(input_file_names)
    /\ num_days_plotted' = num_days_plotted + 1
    /\ reflectivity_factors_plotted' =
           Append(reflectivity_factors_plotted,
                  IF spatial_downsampling_factor.is_none THEN 1
                  ELSE spatial_downsampling_factor.value)
    /\ plot_pc' = IF num_days_plotted + 1 = Len(input_file_names) THEN "done" ELSE "plot_days"
    /\ UNCHANGED <<plot_error, spatial_downsampling_factor, mask_dict>>
    /\ PlotUnchanged
    /\ PlotFrame

PlotNext == PlotPrepareMask \/ PlotCheckTimes \/ PlotOneDay

SpecPlot == PlotInit /\ [][PlotNext]_vars

(* Mask preparation is over. *)
MaskPrepared == plot_pc # "start"

(* C30: when a mask file is given, the mask is downsampled if and only if  *)
(* spatial_downsampling_factor is above 1 and is otherwise used at its     *)
(* original resolution; whatever the factor (1, the default, and 0 or      *)
(* less included), mask preparation ends without error and the script goes *)
(* on to validate the daily times.                                         *)
C30_MaskPreparedForEveryFactor ==
    (MaskPrepared /\ mask_file_name # "") =>
        /\ plot_error # "TypeError"
        /\ mask_dict.kind = "mask"
        /\ mask_dict.downsampling_factor =
               (IF spatial_downsampling_factor_arg > 1 THEN spatial_downsampling_factor_arg ELSE 1)

(* What holds: with a factor above 1 the mask is downsampled by it and the *)
(* script goes on; without a mask file every factor goes through.          *)
MaskPreparedWhenFactorAboveOneOrNoMask ==
    /\ (MaskPrepared /\ mask_file_name # "" /\ spatial_downsampling_factor_arg > 1) =>
          /\ plot_error # "TypeError"
          /\ mask_dict.downsampling_factor = spatial_downsampling_factor_arg
    /\ (MaskPrepared /\ mask_file_name = "") =>
          /\ plot_error # "TypeError"
          /\ mask_dict = NoMask

(* A mask file and the default factor, 1: the script stops with TypeError  *)
(* before it validates the daily times.                                    *)
PlotFailsOnMaskAtDefaultFactor ==
    /\ plot_pc = "raised"
    /\ plot_error = "TypeError"
    /\ mask_file_name # ""
    /\ spatial_downsampling_factor_arg = 1
    /\ num_days_plotted = 0

(* A mask file and a factor of 2: the mask is downsampled and the days are *)
(* plotted.                                                                *)
PlotsWithMaskAtFactorTwo ==
    /\ plot_pc = "done"
    /\ mask_file_name # ""
    /\ mask_dict.downsampling_factor = 2
    /\ reflectivity_factors_plotted = <<2, 2>>

====
